---- MODULE Spec2Model ----
(***************************************************************************)
(* The tolerant parsers of pkgctx's R source extractor                     *)
(* (src/src/r_source_extractor.rs): the Rd section extractor, the          *)
(* argument-list parser, the inline markup stripper, the example segmenter *)
(* and the function-signature scanner.                                     *)
(*                                                                         *)
(* A Rust String is modelled as a sequence of one-character strings, so    *)
(* every parser below scans the same characters the code scans.  A         *)
(* BTreeMap<String, String> is modelled as a sequence of <<key, value>>    *)
(* pairs kept in ascending key order, which is its iteration order.        *)
(***************************************************************************)
EXTENDS Integers, Sequences, FiniteSets, TLC

VARIABLES
    input,            \* the text handed to the parser under check
    pc,               \* position of the driver: "start", "lines", "done"
    result,           \* what a parser called as a whole returned
    line_no,          \* extract_rd_sections: number of lines consumed
    sections,         \* extract_rd_sections: BTreeMap of finalized sections
    current_section,  \* extract_rd_sections: name of the open section
    section_content,  \* extract_rd_sections: text accumulated for it
    brace_depth,      \* extract_rd_sections: tracked brace depth
    spans,            \* history: <<name, captured span>> of each finalization
    doc,              \* parse_rd_content: the RdDoc built from the sections
    exports,          \* extract_functions_from_r: the export list
    include_internal, \* extract_functions_from_r: the flag
    rd_docs,          \* extract_functions_from_r: the documentation by name
    items,            \* history: the \item entries the arguments text was built from
    rd_files,         \* parse_rd_files: <<file stem, content>> of each man/*.Rd
    frame             \* the locals of the loop a parser is in, when run stepwise

vars == <<input, pc, result, line_no, sections, current_section,
          section_content, brace_depth, spans, doc,
          exports, include_internal, rd_docs, items, rd_files, frame>>

-----------------------------------------------------------------------------
(* Characters and the str primitives the parsers use.                      *)

\* The characters of the model's alphabet in ascending byte order; String's
\* Ord compares bytes, and every character used here is ASCII.
CharOrder ==
    <<"\t", "\n", " ", "\"", "#", "(", ")", ",", "-", ".",
      "0", "1", "2", "<", "=",
      "A", "B", "C", "D", "E", "F", "G", "H", "I", "J", "K", "L", "M",
      "N", "O", "P", "Q", "R", "S", "T", "U", "V", "W", "X", "Y", "Z",
      "\\", "_",
      "a", "b", "c", "d", "e", "f", "g", "h", "i", "j", "k", "l", "m",
      "n", "o", "p", "q", "r", "s", "t", "u", "v", "w", "x", "y", "z",
      "{", "|", "}">>

Ord(c) == CHOOSE i \in 1..Len(CharOrder) : CharOrder[i] = c

\* <String as Ord>::lt : lexicographic on bytes, a proper prefix is smaller.
RECURSIVE StrLess(_, _)
StrLess(a, b) ==
    IF b = <<>> THEN FALSE
    ELSE IF a = <<>> THEN TRUE
    ELSE IF Head(a) = Head(b) THEN StrLess(Tail(a), Tail(b))
    ELSE Ord(Head(a)) < Ord(Head(b))

is_whitespace(c) == c \in {" ", "\n", "\t"}

is_alphabetic(c) ==
    c \in {"A", "B", "C", "D", "E", "F", "G", "H", "I", "J", "K", "L", "M",
           "N", "O", "P", "Q", "R", "S", "T", "U", "V", "W", "X", "Y", "Z",
           "a", "b", "c", "d", "e", "f", "g", "h", "i", "j", "k", "l", "m",
           "n", "o", "p", "q", "r", "s", "t", "u", "v", "w", "x", "y", "z"}

\* str::trim_start : the text from its first non-whitespace character on.
trim_start(s) ==
    LET keep == {i \in 1..Len(s) : ~is_whitespace(s[i])}
    IN IF keep = {} THEN <<>>
       ELSE SubSeq(s, CHOOSE i \in keep : \A j \in keep : i <= j, Len(s))

\* str::trim_end : the text up to its last non-whitespace character.
trim_end(s) ==
    LET keep == {i \in 1..Len(s) : ~is_whitespace(s[i])}
    IN IF keep = {} THEN <<>>
       ELSE SubSeq(s, 1, CHOOSE i \in keep : \A j \in keep : i >= j)

trim(s) == trim_end(trim_start(s))

starts_with(s, p) == Len(s) >= Len(p) /\ SubSeq(s, 1, Len(p)) = p

ends_with(s, p) ==
    Len(s) >= Len(p) /\ SubSeq(s, Len(s) - Len(p) + 1, Len(s)) = p

contains(s, c) == \E i \in 1..Len(s) : s[i] = c

\* str::find : the first index (0-based) at which p occurs in s, or -1.
find(s, p) ==
    LET hits == {i \in 0..(Len(s) - Len(p)) : SubSeq(s, i + 1, i + Len(p)) = p}
    IN IF hits = {} THEN -1 ELSE CHOOSE i \in hits : \A j \in hits : i <= j

\* str::rfind(char) : the last index (0-based) of c in s, or -1.
rfind(s, c) ==
    LET hits == {i \in 0..(Len(s) - 1) : s[i + 1] = c}
    IN IF hits = {} THEN -1 ELSE CHOOSE i \in hits : \A j \in hits : i >= j

\* str::lines : split at "\n"; a final empty piece is not a line.
lines(s) ==
    LET nl == {i \in 1..Len(s) : s[i] = "\n"}
        \* position of the k-th line feed; 0 for k = 0, Len(s) + 1 past the last
        at(k) == IF k = 0 THEN 0
                 ELSE IF k > Cardinality(nl) THEN Len(s) + 1
                 ELSE CHOOSE i \in nl : Cardinality({j \in nl : j <= i}) = k
        n == Cardinality(nl) + (IF s # <<>> /\ s[Len(s)] # "\n" THEN 1 ELSE 0)
    IN [k \in 1..n |-> SubSeq(s, at(k - 1) + 1, at(k) - 1)]

\* str::split_whitespace : the maximal runs of non-whitespace characters.
RECURSIVE split_ws(_, _, _)
split_ws(s, cur, acc) ==
    IF s = <<>> THEN (IF cur = <<>> THEN acc ELSE Append(acc, cur))
    ELSE IF is_whitespace(Head(s))
         THEN split_ws(Tail(s), <<>>, IF cur = <<>> THEN acc ELSE Append(acc, cur))
    ELSE split_ws(Tail(s), Append(cur, Head(s)), acc)

split_whitespace(s) == split_ws(s, <<>>, <<>>)

\* [String]::join
RECURSIVE join(_, _)
join(words, sep) ==
    IF words = <<>> THEN <<>>
    ELSE IF Len(words) = 1 THEN words[1]
    ELSE words[1] \o sep \o join(Tail(words), sep)

\* str::trim_end_matches('}') : every trailing "}" is removed.
RECURSIVE trim_end_matches_brace(_)
trim_end_matches_brace(s) ==
    IF s # <<>> /\ s[Len(s)] = "}"
    THEN trim_end_matches_brace(SubSeq(s, 1, Len(s) - 1)) ELSE s

\* chars().filter(|&c| c == ch).count()
count_char(s, c) == Cardinality({i \in 1..Len(s) : s[i] = c})

count_braces(line) == count_char(line, "{") - count_char(line, "}")

-----------------------------------------------------------------------------
(* BTreeMap<String, String>                                                *)

BTreeHas(m, k) == \E i \in 1..Len(m) : m[i][1] = k

BTreeValue(m, k) == m[CHOOSE i \in 1..Len(m) : m[i][1] = k][2]

\* A Vec of pairs in place of the map: a new key goes to the end.
InsertAtEnd(m, k, v) ==
    IF \E i \in 1..Len(m) : m[i][1] = k
    THEN [i \in 1..Len(m) |-> IF m[i][1] = k THEN <<k, v>> ELSE m[i]]
    ELSE Append(m, <<k, v>>)

\* entry(k).or_insert(v) in place of insert(k, v): the first value is kept.
InsertKeepFirst(m, k, v) ==
    IF \E i \in 1..Len(m) : m[i][1] = k
    THEN m
    ELSE LET n == Cardinality({i \in 1..Len(m) : StrLess(m[i][1], k)})
         IN SubSeq(m, 1, n) \o <<(<<k, v>>)>> \o SubSeq(m, n + 1, Len(m))

\* BTreeMap::insert : the value of an existing key is overwritten, a new key
\* goes to its place in key order.
BTreeInsert(m, k, v) ==
    IF BTreeHas(m, k)
    THEN [i \in 1..Len(m) |-> IF m[i][1] = k THEN <<k, v>> ELSE m[i]]
    ELSE LET n == Cardinality({i \in 1..Len(m) : StrLess(m[i][1], k)})
         IN SubSeq(m, 1, n) \o <<(<<k, v>>)>> \o SubSeq(m, n + 1, Len(m))

-----------------------------------------------------------------------------
(* The inline markup stripper: sanitize, strip_rd_markup and its helpers.   *)
(* A Peekable<Chars> is modelled by the sequence of characters not yet      *)
(* consumed; a helper that advances the iterator returns the rest.          *)

KeepContentCommands ==
    {<<"c","o","d","e">>, <<"l","i","n","k">>, <<"p","k","g">>,
     <<"e","m","p","h">>, <<"s","t","r","o","n","g">>, <<"b","o","l","d">>,
     <<"s","Q","u","o","t","e">>, <<"d","Q","u","o","t","e">>,
     <<"f","i","l","e">>, <<"o","p","t","i","o","n">>, <<"v","a","r">>,
     <<"e","n","v">>, <<"c","o","m","m","a","n","d">>, <<"d","f","n">>,
     <<"c","i","t","e">>, <<"a","c","r","o","n","y","m">>,
     <<"s","a","m","p">>, <<"k","b","d">>}

LinkCommands == {<<"h","r","e","f">>, <<"u","r","l">>}

ClassLinkCommands ==
    {<<"l","i","n","k","S","4","c","l","a","s","s">>,
     <<"l","i","n","k","S","3","c","l","a","s","s">>}

SkipCommands ==
    {<<"s","e","c","t","i","o","n">>, <<"s","u","b","s","e","c","t","i","o","n">>,
     <<"s","e","e","a","l","s","o">>, <<"a","u","t","h","o","r">>,
     <<"r","e","f","e","r","e","n","c","e","s">>, <<"s","o","u","r","c","e">>,
     <<"f","o","r","m","a","t">>, <<"n","o","t","e">>,
     <<"k","e","y","w","o","r","d">>, <<"c","o","n","c","e","p","t">>,
     <<"a","l","i","a","s">>, <<"n","a","m","e">>,
     <<"d","o","c","T","y","p","e">>, <<"t","i","t","l","e">>,
     <<"e","n","c","o","d","i","n","g">>, <<"R","d","v","e","r","s","i","o","n">>}

ItemCommand == <<"i","t","e","m">>

ListCommands ==
    {<<"d","e","s","c","r","i","b","e">>, <<"i","t","e","m","i","z","e">>,
     <<"e","n","u","m","e","r","a","t","e">>}

VerbCommand == <<"v","e","r","b">>

DotsCommands == {<<"d","o","t","s">>, <<"l","d","o","t","s">>}

RCommand == <<"R">>

SpaceCommands == {<<"c","r">>, <<"t","a","b">>}

\* Every command name the match of strip_rd_markup enumerates.
RecognizedCommands ==
    KeepContentCommands \cup LinkCommands \cup ClassLinkCommands
        \cup SkipCommands \cup {ItemCommand} \cup ListCommands
        \cup {VerbCommand} \cup DotsCommands \cup {RCommand}
        \cup SpaceCommands

skip_whitespace(chars) == trim_start(chars)

\* Index of the "}" that returns the depth to 0, Len(s) + 1 when none does.
RECURSIVE brace_scan(_, _, _)
brace_scan(s, i, depth) ==
    IF i > Len(s) THEN i
    ELSE IF s[i] = "{" THEN brace_scan(s, i + 1, depth + 1)
    ELSE IF s[i] = "}"
         THEN (IF depth = 1 THEN i ELSE brace_scan(s, i + 1, depth - 1))
    ELSE brace_scan(s, i + 1, depth)

\* Called after the opening brace was consumed: the content up to the
\* matching "}" (consumed too), or everything left when it is missing.
extract_brace_content_nested(chars) ==
    LET k == brace_scan(chars, 1, 1)
    IN [content |-> SubSeq(chars, 1, k - 1),
        rest    |-> SubSeq(chars, k + 1, Len(chars))]

\* skip_whitespace, then one brace group if the next character opens one.
brace_group(chars) ==
    LET s == skip_whitespace(chars)
    IN IF s # <<>> /\ Head(s) = "{"
       THEN LET g == extract_brace_content_nested(Tail(s))
            IN [found |-> TRUE, content |-> g.content, rest |-> g.rest]
       ELSE [found |-> FALSE, content |-> <<>>, rest |-> s]

\* The command name after a backslash: the alphabetic or "_" characters.
RECURSIVE command_name(_)
command_name(chars) ==
    IF chars # <<>> /\ (is_alphabetic(Head(chars)) \/ Head(chars) = "_")
    THEN <<Head(chars)>> \o command_name(Tail(chars))
    ELSE <<>>

\* Index of the first occurrence of delim in s, Len(s) + 1 when absent.
RECURSIVE index_of(_, _, _)
index_of(s, delim, i) ==
    IF i > Len(s) \/ s[i] = delim THEN i ELSE index_of(s, delim, i + 1)

RECURSIVE strip_rd_markup(_)

\* "code" | "link" | ... and "linkS4class" | "linkS3class": the brace group's
\* content is pushed as extract_brace_content_nested returned it.
keep_content(chars) ==
    LET g == brace_group(chars)
    IN [out |-> g.content, rest |-> g.rest]

\* "href" | "url": the stripped second group, else the first group as is.
href_url(chars) ==
    LET first == brace_group(chars)
    IN IF ~first.found THEN [out |-> <<>>, rest |-> first.rest]
       ELSE LET second == brace_group(first.rest)
            IN IF second.found
               THEN [out |-> strip_rd_markup(second.content), rest |-> second.rest]
               ELSE [out |-> first.content, rest |-> second.rest]

\* "section" | "subsection" | ... : the brace group is consumed and dropped.
skip_content(chars) == [out |-> <<>>, rest |-> brace_group(chars).rest]

\* "item": the name group is dropped, the description group is stripped and
\* followed by a space.
item_command(chars) ==
    LET name == brace_group(chars)
        desc == brace_group(name.rest)
    IN IF desc.found
       THEN [out |-> strip_rd_markup(desc.content) \o <<" ">>, rest |-> desc.rest]
       ELSE [out |-> <<>>, rest |-> desc.rest]

\* "describe" | "itemize" | "enumerate": the group's content is stripped.
recurse_content(chars) ==
    LET g == brace_group(chars)
    IN [out |-> IF g.found THEN strip_rd_markup(g.content) ELSE <<>>,
        rest |-> g.rest]

\* "verb": \verb{...} or \verb|...| with any delimiter character.
verb_command(chars) ==
    LET s == skip_whitespace(chars)
    IN IF s = <<>> THEN [out |-> <<>>, rest |-> s]
       ELSE IF Head(s) = "{"
       THEN LET g == extract_brace_content_nested(Tail(s))
            IN [out |-> g.content, rest |-> g.rest]
       ELSE LET t == Tail(s)
                k == index_of(t, Head(s), 1)
            IN [out |-> SubSeq(t, 1, k - 1), rest |-> SubSeq(t, k + 1, Len(t))]

\* The group's content pushed as extracted, as for the keep-content commands.
unknown_command_raw(chars) ==
    LET g == brace_group(chars)
    IN [out |-> g.content, rest |-> g.rest]

\* Any other command name (the empty one included): a brace group that
\* follows is stripped in place, and the name itself is never pushed.
unknown_command(chars) ==
    LET g == brace_group(chars)
    IN [out |-> IF g.found THEN strip_rd_markup(g.content) ELSE <<>>,
        rest |-> g.rest]

\* The match on the command name.
dispatch_command(cmd, chars) ==
    IF cmd \in KeepContentCommands THEN keep_content(chars)
    ELSE IF cmd \in LinkCommands THEN href_url(chars)
    ELSE IF cmd \in ClassLinkCommands THEN keep_content(chars)
    ELSE IF cmd \in SkipCommands THEN skip_content(chars)
    ELSE IF cmd = ItemCommand THEN item_command(chars)
    ELSE IF cmd \in ListCommands THEN recurse_content(chars)
    ELSE IF cmd = VerbCommand THEN verb_command(chars)
    ELSE IF cmd \in DotsCommands THEN [out |-> <<".", ".", ".">>, rest |-> chars]
    ELSE IF cmd = RCommand THEN [out |-> <<"R">>, rest |-> chars]
    ELSE IF cmd \in SpaceCommands THEN [out |-> <<" ">>, rest |-> chars]
    ELSE unknown_command(chars)

\* The brace pushed like any other character.
stray_brace_kept(out, c) == Append(out, c)

\* "Stray braces - skip them": nothing is pushed.
stray_brace(out, c) == out

\* One iteration of the while loop of strip_rd_markup.
strip_step(st) ==
    LET c == Head(st.chars)
    IN IF c = "\\"
       THEN LET cmd == command_name(Tail(st.chars))
                r == dispatch_command(cmd,
                         SubSeq(st.chars, 2 + Len(cmd), Len(st.chars)))
            IN [chars |-> r.rest, out |-> st.out \o r.out]
       ELSE IF c = "{" \/ c = "}"
       THEN [chars |-> Tail(st.chars), out |-> stray_brace(st.out, c)]
       ELSE [chars |-> Tail(st.chars), out |-> Append(st.out, c)]

RECURSIVE strip_loop(_)
strip_loop(st) == IF st.chars = <<>> THEN st.out ELSE strip_loop(strip_step(st))

strip_rd_markup(content) == strip_loop([chars |-> content, out |-> <<>>])

\* Remove Rd markup, then collapse every whitespace run to one space.
sanitize(s) == join(split_whitespace(strip_rd_markup(s)), <<" ">>)

-----------------------------------------------------------------------------
(* parse_arguments_section: the character loop over the arguments section.  *)

ItemOpen == <<"\\","i","t","e","m","{">>

\* The for loop that collects the argument name up to its closing brace.
RECURSIVE item_name(_, _, _)
item_name(chars, name_brace_depth, current_name) ==
    IF chars = <<>> THEN [name |-> current_name, rest |-> <<>>]
    ELSE LET nc == Head(chars)
         IN IF nc = "{"
            THEN item_name(Tail(chars), name_brace_depth + 1, Append(current_name, nc))
            ELSE IF nc = "}"
            THEN (IF name_brace_depth = 1
                  THEN [name |-> current_name, rest |-> Tail(chars)]
                  ELSE item_name(Tail(chars), name_brace_depth - 1,
                                 Append(current_name, nc)))
            ELSE item_name(Tail(chars), name_brace_depth, Append(current_name, nc))

\* "Skip opening brace of description": whitespace, then one "{" if present.
RECURSIVE skip_description_brace(_)
skip_description_brace(chars) ==
    IF chars = <<>> THEN chars
    ELSE IF Head(chars) = "{" THEN Tail(chars)
    ELSE IF is_whitespace(Head(chars)) THEN skip_description_brace(Tail(chars))
    ELSE chars

args_init(content) ==
    [chars |-> content, buffer |-> <<>>, arguments |-> <<>>,
     current_name |-> <<>>, current_desc |-> <<>>,
     in_item |-> FALSE, brace_depth |-> 0]

\* The insertion at the end of an item's description.
args_insert(arguments, current_name, current_desc) ==
    LET name == trim(current_name)
        desc == sanitize(trim(current_desc))
    IN IF name # <<>> THEN BTreeInsert(arguments, name, desc) ELSE arguments

\* One iteration of `while let Some(c) = chars.next()`.
args_step(st) ==
    LET c == Head(st.chars)
        rest == Tail(st.chars)
        buffer == Append(st.buffer, c)
    IN IF ends_with(buffer, ItemOpen) /\ ~st.in_item
       THEN LET n == item_name(rest, 1, <<>>)
            IN [st EXCEPT !.chars = skip_description_brace(n.rest),
                          !.buffer = <<>>,
                          !.current_name = n.name,
                          !.current_desc = <<>>,
                          !.brace_depth = 1,
                          !.in_item = TRUE]
       ELSE IF st.in_item
       THEN IF c = "{"
            THEN [st EXCEPT !.chars = rest, !.buffer = buffer,
                            !.brace_depth = @ + 1,
                            !.current_desc = Append(@, c)]
            ELSE IF c = "}"
            THEN (IF st.brace_depth - 1 = 0
                  THEN [st EXCEPT !.chars = rest, !.buffer = <<>>,
                                  !.brace_depth = 0,
                                  !.arguments = args_insert(@, st.current_name,
                                                            st.current_desc),
                                  !.in_item = FALSE,
                                  !.current_name = <<>>,
                                  !.current_desc = <<>>]
                  ELSE [st EXCEPT !.chars = rest, !.buffer = buffer,
                                  !.brace_depth = @ - 1,
                                  !.current_desc = Append(@, c)])
            ELSE [st EXCEPT !.chars = rest, !.buffer = buffer,
                            !.current_desc = Append(@, c)]
       ELSE [st EXCEPT !.chars = rest, !.buffer = buffer]

RECURSIVE args_loop(_)
args_loop(st) == IF st.chars = <<>> THEN st ELSE args_loop(args_step(st))

parse_arguments_section(content) == args_loop(args_init(content)).arguments

-----------------------------------------------------------------------------
(* parse_example_blocks and strip_rd_directives.                            *)

Directives ==
    {<<"\\","d","o","n","t","r","u","n">>, <<"\\","d","o","n","t","t","e","s","t">>,
     <<"\\","d","o","n","t","s","h","o","w">>, <<"\\","d","o","n","t","e","v","a","l">>}

\* The alphabetic characters that follow the backslash of a directive.
RECURSIVE directive_name(_)
directive_name(chars) ==
    IF chars # <<>> /\ is_alphabetic(Head(chars))
    THEN <<Head(chars)>> \o directive_name(Tail(chars))
    ELSE <<>>

\* "Skip the opening brace": whitespace is consumed up to a "{"; the result
\* says whether the brace was found (and consumed).
RECURSIVE skip_directive_brace(_)
skip_directive_brace(chars) ==
    IF chars = <<>> THEN [found |-> FALSE, rest |-> chars]
    ELSE IF Head(chars) = "{" THEN [found |-> TRUE, rest |-> Tail(chars)]
    ELSE IF is_whitespace(Head(chars)) THEN skip_directive_brace(Tail(chars))
    ELSE [found |-> FALSE, rest |-> chars]

\* The wrapper discarded with what it wraps.
drop_directive_content(out, c) == out

\* "Keep the content inside the directive (just not the directive itself)".
keep_directive_content(out, c) == Append(out, c)

\* One iteration of the while loop of strip_rd_directives.
directives_step(st) ==
    LET c == Head(st.chars)
        rest == Tail(st.chars)
    IN IF c = "\\"
       THEN LET directive == <<c>> \o directive_name(rest)
                after == SubSeq(rest, Len(directive), Len(rest))
            IN IF directive \in Directives
               THEN LET b == skip_directive_brace(after)
                    IN [st EXCEPT !.chars = b.rest,
                                  !.brace_depth_to_skip =
                                      IF b.found THEN 1 ELSE @]
               ELSE [st EXCEPT !.chars = after, !.result = @ \o directive]
       ELSE IF st.brace_depth_to_skip > 0
       THEN IF c = "{"
            THEN [st EXCEPT !.chars = rest, !.brace_depth_to_skip = @ + 1,
                            !.result = keep_directive_content(@, c)]
            ELSE IF c = "}"
            THEN (IF st.brace_depth_to_skip - 1 = 0
                  THEN [st EXCEPT !.chars = rest, !.brace_depth_to_skip = 0]
                  ELSE [st EXCEPT !.chars = rest, !.brace_depth_to_skip = @ - 1,
                                  !.result = keep_directive_content(@, c)])
            ELSE [st EXCEPT !.chars = rest,
                            !.result = keep_directive_content(@, c)]
       ELSE [st EXCEPT !.chars = rest, !.result = Append(@, c)]

RECURSIVE directives_loop(_)
directives_loop(st) ==
    IF st.chars = <<>> THEN st ELSE directives_loop(directives_step(st))

directives_init(content) ==
    [chars |-> content, result |-> <<>>, brace_depth_to_skip |-> 0]

strip_rd_directives(content) == directives_loop(directives_init(content)).result

is_valid_example(block) ==
    LET trimmed == trim(block)
    IN /\ trimmed # <<>>
       /\ trimmed # <<"}">>
       /\ trimmed # <<"{">>
       /\ ~starts_with(trimmed, <<"\\">>)

\* "Track parenthesis depth": the for loop over the characters of one line.
RECURSIVE track_parens(_, _)
track_parens(chars, st) ==
    IF chars = <<>> THEN st
    ELSE LET c == Head(chars)
             in_string == IF c = "\"" /\ st.prev_char # "\\"
                          THEN ~st.in_string ELSE st.in_string
             paren_depth ==
                 IF in_string THEN st.paren_depth
                 ELSE IF c = "(" THEN st.paren_depth + 1
                 ELSE IF c = ")"
                      THEN (IF st.paren_depth = 0 THEN 0 ELSE st.paren_depth - 1)
                 ELSE st.paren_depth
         IN track_parens(Tail(chars),
                [st EXCEPT !.in_string = in_string,
                           !.paren_depth = paren_depth,
                           !.prev_char = c])

\* The block pushed whatever it holds.
push_example_unchecked(examples, current_block) ==
    Append(examples, trim(current_block))

\* examples.push(block) when is_valid_example(&block).
push_example(examples, current_block) ==
    LET block == trim(current_block)
    IN IF is_valid_example(block) THEN Append(examples, block) ELSE examples

\* A blank line closing the block whatever the parenthesis depth.
closes_block_at_any_depth(st) == st.current_block # <<>>

\* if !current_block.is_empty() && paren_depth == 0
closes_block(st) == st.current_block # <<>> /\ st.paren_depth = 0

\* The body of `for line in cleaned.lines()`.
example_line(st, line) ==
    LET trimmed == trim(line)
    IN IF trimmed = <<>>
       THEN (IF closes_block(st)
             THEN [st EXCEPT !.examples = push_example(@, st.current_block),
                             !.current_block = <<>>]
             ELSE st)
       ELSE IF Head(trimmed) = "#" /\ st.current_block = <<>> THEN st
       ELSE LET block == (IF st.current_block # <<>>
                          THEN Append(st.current_block, "\n")
                          ELSE st.current_block) \o trimmed
                t == track_parens(trimmed, [st EXCEPT !.current_block = block])
                last_char == trimmed[Len(trimmed)]
            IN IF /\ t.paren_depth = 0
                  /\ last_char # ","
                  /\ last_char # "("
                  /\ (last_char = ")" \/ ~contains(trimmed, "("))
               THEN [t EXCEPT !.examples = push_example(@, block),
                              !.current_block = <<>>]
               ELSE t

RECURSIVE example_lines(_, _)
example_lines(st, ls) ==
    IF ls = <<>> THEN st ELSE example_lines(example_line(st, Head(ls)), Tail(ls))

\* The locals of parse_example_blocks before its for loop.
example_blocks_init ==
    [examples |-> <<>>, current_block |-> <<>>,
     paren_depth |-> 0, in_string |-> FALSE, prev_char |-> " "]

\* "Don't forget the last block"
example_blocks_end(st) ==
    IF st.current_block # <<>>
    THEN push_example(st.examples, st.current_block)
    ELSE st.examples

parse_example_blocks(content) ==
    example_blocks_end(example_lines(example_blocks_init,
                                     lines(strip_rd_directives(content))))

-----------------------------------------------------------------------------
(* extract_rd_sections and parse_rd_content.                                *)

\* The section names in the order the for loop tries them.
SectionNames ==
    <<(<<"t","i","t","l","e">>),
      (<<"d","e","s","c","r","i","p","t","i","o","n">>),
      (<<"v","a","l","u","e">>),
      (<<"a","r","g","u","m","e","n","t","s">>),
      (<<"e","x","a","m","p","l","e","s">>),
      (<<"u","s","a","g","e">>),
      (<<"d","e","t","a","i","l","s">>)>>

\* format!("\\{section_name}{{")
section_prefix(section_name) == <<"\\">> \o section_name \o <<"{">>

\* Index in SectionNames of the first name whose prefix starts the line, or 0.
matching_section(trimmed) ==
    LET hits == {i \in 1..Len(SectionNames) :
                    starts_with(trimmed, section_prefix(SectionNames[i]))}
    IN IF hits = {} THEN 0 ELSE CHOOSE i \in hits : \A j \in hits : i <= j

\* "Check for new section start": the branch taken when brace_depth == 0.
section_open(st, trimmed) ==
    LET i == matching_section(trimmed)
    IN IF i = 0 THEN st
       ELSE LET prefix == section_prefix(SectionNames[i])
                after_prefix == SubSeq(trimmed, Len(prefix) + 1, Len(trimmed))
            IN [st EXCEPT !.current_section = SectionNames[i],
                          !.section_content = after_prefix,
                          !.brace_depth = 1 + count_braces(after_prefix)]

\* section_content after push('\n') (unless empty) and push_str(trimmed).
accumulated(content, trimmed) ==
    (IF content # <<>> THEN Append(content, "\n") ELSE content) \o trimmed

\* "We're inside a section": the branch taken when brace_depth != 0.
section_accumulate(st, trimmed) ==
    LET content == accumulated(st.section_content, trimmed)
        depth == st.brace_depth + count_braces(trimmed)
    IN IF depth <= 0
       THEN [st EXCEPT !.sections = BTreeInsert(@, st.current_section,
                                        trim_end_matches_brace(content)),
                       !.current_section = <<>>,
                       !.section_content = <<>>,
                       !.brace_depth = 0]
       ELSE [st EXCEPT !.section_content = content, !.brace_depth = depth]

\* The body of `for line in content.lines()`.
section_line(st, line) ==
    IF st.brace_depth = 0 THEN section_open(st, trim(line))
    ELSE section_accumulate(st, trim(line))

RECURSIVE section_lines(_, _)
section_lines(st, ls) ==
    IF ls = <<>> THEN st ELSE section_lines(section_line(st, Head(ls)), Tail(ls))

extract_rd_sections(content) ==
    section_lines([sections |-> <<>>, current_section |-> <<>>,
                   section_content |-> <<>>, brace_depth |-> 0],
                  lines(content)).sections

Title == SectionNames[1]
Description == SectionNames[2]
Value == SectionNames[3]
Arguments == SectionNames[4]
Examples == SectionNames[5]

\* Option<String>: <<>> is None, <<s>> is Some(s).
None == <<>>
Some(s) == <<s>>

\* parse_rd_content once the sections are extracted.
rd_doc(secs) ==
    [title |-> IF BTreeHas(secs, Title)
               THEN Some(sanitize(BTreeValue(secs, Title))) ELSE None,
     description |-> IF BTreeHas(secs, Description)
                     THEN Some(sanitize(BTreeValue(secs, Description))) ELSE None,
     arguments |-> IF BTreeHas(secs, Arguments)
                   THEN parse_arguments_section(BTreeValue(secs, Arguments))
                   ELSE <<>>,
     value |-> IF BTreeHas(secs, Value)
               THEN Some(sanitize(BTreeValue(secs, Value))) ELSE None,
     examples |-> IF BTreeHas(secs, Examples)
                  THEN parse_example_blocks(BTreeValue(secs, Examples))
                  ELSE <<>>]

parse_rd_content(content) == rd_doc(extract_rd_sections(content))

-----------------------------------------------------------------------------
(* extract_functions_from_r: the function-signature scanner.                *)

\* The assignment patterns in the order the for loop tries them.
Patterns ==
    <<(<<"<","-"," ","f","u","n","c","t","i","o","n","(">>),
      (<<"="," ","f","u","n","c","t","i","o","n","(">>),
      (<<"<","-","f","u","n","c","t","i","o","n","(">>),
      (<<"=","f","u","n","c","t","i","o","n","(">>)>>

\* The pass without its `j += 1` and its push_str of the next line.
signature_step_no_advance(ls, st) ==
    [st EXCEPT !.paren_depth = st.paren_depth + count_char(st.sig_content, "(")
                                              - count_char(st.sig_content, ")")]

\* One pass of the while loop of "Extract signature (may span multiple
\* lines)": the parentheses of the whole of sig_content are counted, then the
\* next line is appended.  j is 0-based.
signature_step(ls, st) ==
    LET depth == st.paren_depth + count_char(st.sig_content, "(")
                                - count_char(st.sig_content, ")")
    IN IF depth > 0
       THEN [sig_content |-> IF st.j + 1 < Len(ls)
                             THEN st.sig_content \o trim(ls[st.j + 2])
                             ELSE st.sig_content,
             paren_depth |-> depth,
             j |-> st.j + 1]
       ELSE [st EXCEPT !.paren_depth = depth]

\* while paren_depth > 0 && j < lines.len()
RECURSIVE signature_loop(_, _)
signature_loop(ls, st) ==
    IF st.paren_depth > 0 /\ st.j < Len(ls)
    THEN signature_loop(ls, signature_step(ls, st)) ELSE st

\* "Build signature": format!("{}({})", name, args.trim())
build_signature(name, sig_content) ==
    LET r == rfind(sig_content, ")")
        args_end == IF r = -1 THEN Len(sig_content) ELSE r
    IN name \o <<"(">> \o trim(SubSeq(sig_content, 1, args_end)) \o <<")">>

\* d.examples.iter().take(3)
take(s, n) == SubSeq(s, 1, IF Len(s) < n THEN Len(s) ELSE n)

function_record(name, exported, signature, docs) ==
    LET has == BTreeHas(docs, name)
        d == BTreeValue(docs, name)
    IN [name |-> name,
        exported |-> exported,
        signature |-> signature,
        purpose |-> IF has THEN d.title ELSE None,
        arguments |-> IF has THEN d.arguments ELSE <<>>,
        returns |-> IF has THEN d.value ELSE None,
        examples |-> IF has THEN take(d.examples, 3) ELSE <<>>]

\* exports.contains(&name)
is_exported_member(exps, name) == \E e \in 1..Len(exps) : exps[e] = name

\* exports.contains(&name) || exports.is_empty()
is_exported(exps, name) == (\E e \in 1..Len(exps) : exps[e] = name) \/ exps = <<>>

\* Only the definitions that are not exported are skipped.
skip_unexported_only(internal, name, exported) == ~internal /\ ~exported

\* Only the definitions whose name begins with "." are skipped.
skip_dotted_only(internal, name, exported) ==
    ~internal /\ starts_with(name, <<".">>)

\* "Skip internal functions unless requested": either `continue`.
skip_internal(internal, name, exported) ==
    \/ ~internal /\ starts_with(name, <<".">>)
    \/ ~internal /\ ~exported

\* line[..pos].trim() for pattern k, which occurs in the line.
pattern_name(line, k) == trim(SubSeq(line, 1, find(line, Patterns[k])))

\* Pattern k occurs in the line and no `continue` is taken for it.
pattern_hit(line, k, exps, internal) ==
    /\ find(line, Patterns[k]) # -1
    /\ pattern_name(line, k) # <<>>
    /\ ~contains(pattern_name(line, k), " ")
    /\ ~skip_internal(internal, pattern_name(line, k),
                      is_exported(exps, pattern_name(line, k)))

\* `for pattern in patterns`: the first pattern that reaches the `break`, 0
\* when none does (or the line is a comment).
first_hit(line, exps, internal) ==
    LET hits == {k \in 1..Len(Patterns) : pattern_hit(line, k, exps, internal)}
    IN IF starts_with(line, <<"#">>) \/ hits = {} THEN 0
       ELSE CHOOSE k \in hits : \A h \in hits : k <= h

\* The locals of the signature loop as it is entered for line i (0-based).
signature_init(line, k, i) ==
    [sig_content |-> SubSeq(line, find(line, Patterns[k]) + Len(Patterns[k]) + 1,
                            Len(line)),
     paren_depth |-> 1,
     j |-> i]

\* The body of `for (i, line) in lines.iter().enumerate()`.
scan_line(ls, i, exps, docs, internal) ==
    LET line == trim(ls[i + 1])
        k == first_hit(line, exps, internal)
        name == pattern_name(line, k)
    IN IF k = 0 THEN <<>>
       ELSE <<function_record(name, is_exported(exps, name),
                  build_signature(name,
                      signature_loop(ls, signature_init(line, k, i)).sig_content),
                  docs)>>

RECURSIVE scan_lines(_, _, _, _, _)
scan_lines(ls, i, exps, docs, internal) ==
    IF i >= Len(ls) THEN <<>>
    ELSE scan_line(ls, i, exps, docs, internal)
             \o scan_lines(ls, i + 1, exps, docs, internal)

extract_functions_from_r(content, exps, docs, internal) ==
    scan_lines(lines(content), 0, exps, docs, internal)

\* parse_rd_files: every man/*.Rd is parsed and inserted under its file stem.
RECURSIVE parse_rd_files(_)
parse_rd_files(files) ==
    IF files = <<>> THEN <<>>
    ELSE BTreeInsert(parse_rd_files(SubSeq(files, 1, Len(files) - 1)),
                     files[Len(files)][1],
                     parse_rd_content(files[Len(files)][2]))

-----------------------------------------------------------------------------
(* hoist_common_args (src/src/hoist.rs).  A Record is modelled by its kind   *)
(* and the fields the function reads or writes: common_arguments of a       *)
(* package record, arguments of a function record.                          *)

MIN_OCCURRENCES == 3

\* "(see common_arguments)"
SeeCommonArguments ==
    <<"(","s","e","e"," ","c","o","m","m","o","n","_",
      "a","r","g","u","m","e","n","t","s",")">>

\* The function records (by position) that have the argument.
records_with(records, arg_name) ==
    {r \in 1..Len(records) :
        records[r].kind = "function" /\ BTreeHas(records[r].arguments, arg_name)}

\* arg_counts[arg_name]
arg_count(records, arg_name) == Cardinality(records_with(records, arg_name))

\* The description where the records are read from the last to the first.
arg_description_last(records, arg_name) ==
    LET rs == {r \in records_with(records, arg_name) :
                  BTreeValue(records[r].arguments, arg_name) # <<>>}
    IN IF rs = {} THEN None
       ELSE Some(BTreeValue(records[CHOOSE r \in rs : \A q \in rs : r >= q].arguments,
                            arg_name))

\* arg_descriptions.get(arg_name): "Keep the first non-empty description".
arg_description(records, arg_name) ==
    LET rs == {r \in records_with(records, arg_name) :
                  BTreeValue(records[r].arguments, arg_name) # <<>>}
    IN IF rs = {} THEN None
       ELSE Some(BTreeValue(records[CHOOSE r \in rs : \A q \in rs : r <= q].arguments,
                            arg_name))

\* .collect() into a BTreeMap of the names left by the filters.
RECURSIVE collect_common(_, _)
collect_common(records, names) ==
    IF names = {} THEN <<>>
    ELSE LET name == CHOOSE n \in names : TRUE
             rest == collect_common(records, names \ {name})
         IN IF /\ arg_count(records, name) >= MIN_OCCURRENCES
               /\ arg_description(records, name) # None
            THEN BTreeInsert(rest, name, arg_description(records, name)[1])
            ELSE rest

\* "Find common arguments (appear >= MIN_OCCURRENCES times)"
common_args(records) ==
    collect_common(records,
        UNION {{records[r].arguments[a][1] : a \in 1..Len(records[r].arguments)} :
                  r \in {q \in 1..Len(records) : records[q].kind = "function"}})

hoist_common_args(records) ==
    LET common == common_args(records)
        packages == {r \in 1..Len(records) : records[r].kind = "package"}
    IN IF common = <<>> THEN records
       ELSE [r \in 1..Len(records) |->
                IF r \in packages /\ \A q \in packages : r <= q
                THEN [records[r] EXCEPT !.common_arguments = common]
                ELSE IF records[r].kind = "function"
                THEN [records[r] EXCEPT !.arguments =
                         [a \in 1..Len(@) |->
                             IF BTreeHas(common, @[a][1])
                             THEN <<@[a][1], SeeCommonArguments>> ELSE @[a]]]
                ELSE records[r]]

-----------------------------------------------------------------------------
(* compact.rs : truncate_to_sentence.  A String is indexed by bytes there,  *)
(* so the model keeps the UTF-8 width of every character: all characters    *)
(* are one byte wide but the ones in WideChars.                             *)

SentenceLimit == 100

\* A text element standing for U+00E9, two bytes in UTF-8.
EAcute == "e-acute"

WideChars == {EAcute}

len_utf8(c) == IF c \in WideChars THEN 2 ELSE 1

\* String::len : the length in bytes.
byte_len(s) == Len(s) + Cardinality({i \in 1..Len(s) : s[i] \in WideChars})

is_uppercase(c) ==
    c \in {"A", "B", "C", "D", "E", "F", "G", "H", "I", "J", "K", "L", "M",
           "N", "O", "P", "Q", "R", "S", "T", "U", "V", "W", "X", "Y", "Z"}

Terminators == {".", "!", "?"}

Ellipsis == <<".", ".", ".">>

\* What a call that panics leaves in place of its return value.
Panicked == <<"panicked">>

\* &s[..n] : the characters that make up the first n bytes; slicing inside a
\* character panics.
byte_prefix(s, n) ==
    LET cuts == {k \in 0..Len(s) : byte_len(SubSeq(s, 1, k)) = n}
    IN IF cuts = {} THEN Panicked
       ELSE SubSeq(s, 1, CHOOSE k \in cuts : TRUE)

\* The cut taken when no space is found: format!("{}...", &s[..100]).
cut_at_limit(head) == head \o Ellipsis

\* The cut taken at the last space: format!("{}...", &s[..pos]).
cut_at_space(head) ==
    LET pos == rfind(head, " ")
    IN IF pos >= 0 THEN SubSeq(head, 1, pos) \o Ellipsis
       ELSE cut_at_limit(head)

truncate_to_sentence(s) ==
    LET ends == {i \in 1..Len(s) :
                    /\ s[i] \in Terminators
                    /\ \/ i = Len(s)
                       \/ is_whitespace(s[i + 1])
                       \/ is_uppercase(s[i + 1])}
    IN IF ends # {}
       THEN SubSeq(s, 1, CHOOSE i \in ends : \A j \in ends : i <= j)
       ELSE IF byte_len(s) > SentenceLimit
       THEN LET head == byte_prefix(s, SentenceLimit)
            IN IF head = Panicked THEN Panicked ELSE cut_at_space(head)
       ELSE s

-----------------------------------------------------------------------------
(* fetch.rs : PackageSource::parse, and the match on its result in main      *)
(* (src/src/main.rs).  What the file system and the environment answer (does *)
(* the path exist, is HOME set) is an input of parse.                        *)

LocalPrefix == <<"l","o","c","a","l",":">>
GitHubPrefix == <<"g","i","t","h","u","b",":">>
BiocPrefix == <<"b","i","o","c",":">>

\* str::strip_prefix(p).unwrap_or(s)
strip_prefix(s, p) ==
    IF starts_with(s, p) THEN SubSeq(s, Len(p) + 1, Len(s)) ELSE s

Err(message) == [kind |-> "Err", error |-> message]

\* The local-path branch of parse.
parse_local(spec, path_exists, home_set) ==
    LET path_str == strip_prefix(spec, LocalPrefix)
    IN IF starts_with(path_str, <<"~">>) /\ ~home_set
       THEN Err("HOME environment variable not set")
       ELSE IF ~path_exists THEN Err("Local path does not exist")
       ELSE [kind |-> "Local", path |-> path_str]

\* The github: branch of parse; rest is the specifier after the prefix.
parse_github(rest) ==
    LET at_pos == find(rest, <<"@">>)
        repo_part == IF at_pos = -1 THEN rest ELSE SubSeq(rest, 1, at_pos)
        ref == IF at_pos = -1 THEN <<>>
               ELSE <<SubSeq(rest, at_pos + 2, Len(rest))>>
        slash == find(repo_part, <<"/">>)
    IN IF count_char(repo_part, "/") # 1
       THEN Err("Invalid GitHub spec")
       ELSE [kind |-> "GitHub",
             owner |-> SubSeq(repo_part, 1, slash),
             repo |-> SubSeq(repo_part, slash + 2, Len(repo_part)),
             ref_ |-> ref]

\* PackageSource::parse(spec, language)
parse(spec, language, path_exists, home_set) ==
    IF \/ starts_with(spec, <<".">>) \/ starts_with(spec, <<"/">>)
       \/ starts_with(spec, <<"~">>) \/ starts_with(spec, LocalPrefix)
    THEN parse_local(spec, path_exists, home_set)
    ELSE IF starts_with(spec, GitHubPrefix)
    THEN parse_github(strip_prefix(spec, GitHubPrefix))
    ELSE IF starts_with(spec, BiocPrefix)
    THEN [kind |-> "Bioconductor", name |-> strip_prefix(spec, BiocPrefix)]
    ELSE IF language \in {"r", "R"} THEN [kind |-> "Cran", name |-> spec]
    ELSE IF language \in {"python", "Python"} THEN [kind |-> "PyPI", name |-> spec]
    ELSE Err("Unknown language")

\* `match source` of Commands::R : the fetch function called, or the error.
match_r_source(source) ==
    CASE source.kind = "Cran" -> "fetch_cran_package"
      [] source.kind = "GitHub" -> "fetch_github_r_package"
      [] source.kind = "Local" -> "fetch_local_r_package"
      [] OTHER -> "Invalid source for R package"

\* `match source` of Commands::Python.
match_python_source(source) ==
    CASE source.kind = "PyPI" -> "fetch_pypi_package"
      [] source.kind = "GitHub" -> "fetch_github_python_package"
      [] source.kind = "Local" -> "fetch_local_python_package"
      [] OTHER -> "Invalid source for Python package"

-----------------------------------------------------------------------------
(* Inputs.  Every parser takes arbitrary text; the texts checked are the    *)
(* scenario texts below and every text made of at most a bounded number of  *)
(* lines, items or fragments drawn from a pool that holds the well-formed   *)
(* and the malformed shapes the parsers have to deal with.                  *)

MaxRdLines == 3
MaxItems == 3
MaxExLines == 3
MaxSrcLines == 2
MaxFrags == 4
MaxDocLines == 4

MaxCoreFrags == 3
MaxRecords == 4
MaxOver == 3
MaxScanLines == 3
MaxSpecLen == 3

\* Every sequence of 1..n elements of S.
SeqsUpTo(S, n) == UNION {[1..k -> S] : k \in 1..n}

RECURSIVE concat(_)
concat(parts) == IF parts = <<>> THEN <<>> ELSE Head(parts) \o concat(Tail(parts))

\* \title{Sum two numbers}\description{Adds \code{x} and \code{y}.}
TitleDescriptionUnit ==
    <<"\\","t","i","t","l","e","{","S","u","m"," ","t","w","o"," ",
      "n","u","m","b","e","r","s","}",
      "\\","d","e","s","c","r","i","p","t","i","o","n","{","A","d","d","s"," ",
      "\\","c","o","d","e","{","x","}"," ","a","n","d"," ",
      "\\","c","o","d","e","{","y","}",".","}">>

TitleOpenLine == <<"\\","t","i","t","l","e","{">>
TitleLine == <<"\\","t","i","t","l","e","{","T","}">>
BrokenTitleLine == <<"\\","t","i","t","l","e","{","B","r","o","k","e","n">>
DescriptionOKLine == <<"\\","d","e","s","c","r","i","p","t","i","o","n","{","O","K","}">>
DescriptionOpenLine == <<"\\","d","e","s","c","r","i","p","t","i","o","n","{">>

\* \title{a}} : the opener closes one brace more than it opens.
OverClosedTitleLine == <<"\\","t","i","t","l","e","{","a","}","}">>

\* {a}} : a nested group closed just before the section is.
NestedCloseLine == <<"{","a","}","}">>

RdLinePool ==
    {TitleOpenLine, TitleLine, BrokenTitleLine, DescriptionOKLine,
     DescriptionOpenLine, OverClosedTitleLine, NestedCloseLine,
     <<"}">>, <<"a","}","}">>, <<"x">>}

\* \title{Broken followed by \description{OK}
BrokenTitleUnit == join(<<BrokenTitleLine, DescriptionOKLine>>, <<"\n">>)

\* \title{ / A / } / \title{ / B / }
DuplicateTitleUnit ==
    join(<<TitleOpenLine, <<"A">>, <<"}">>, TitleOpenLine, <<"B">>, <<"}">>>>, <<"\n">>)

RdUnits ==
    {TitleDescriptionUnit, DuplicateTitleUnit}
        \cup {join(ls, <<"\n">>) : ls \in SeqsUpTo(RdLinePool, MaxRdLines)}

ItemNames == {<<"x">>, <<"y">>, <<"a","b">>}

\* A \link{numeric} vector.
LinkDesc ==
    <<"A"," ","\\","l","i","n","k","{","n","u","m","e","r","i","c","}"," ",
      "v","e","c","t","o","r",".">>
\* See \code{\link{f}}.
NestedDesc ==
    <<"S","e","e"," ","\\","c","o","d","e","{","\\","l","i","n","k","{","f","}","}",".">>
SpacedDesc == <<" ","a"," "," ","b"," ">>

ItemDescs == {LinkDesc, NestedDesc, SpacedDesc}

Items == [name : ItemNames, desc : ItemDescs]

\* \item{NAME}{DESC}
item_text(it) == ItemOpen \o it.name \o <<"}", "{">> \o it.desc \o <<"}">>

\* The content of an arguments section that lists the items one per line.
arguments_text(its) ==
    join([i \in 1..Len(its) |-> item_text(its[i])], <<"\n">>)

ItemLists == SeqsUpTo(Items, MaxItems)

\* Items of an arguments section some of which are malformed: "ok" is
\* \item{NAME}{D}, "nodesc" is \item{NAME} with no description group, and
\* "noname" is \item NAME{D} with no brace around the name.
FormedItems == [name : ItemNames, desc : {<<"D">>}, form : {"ok", "nodesc", "noname"}]

formed_item_text(it) ==
    CASE it.form = "ok" -> item_text(it)
      [] it.form = "nodesc" -> ItemOpen \o it.name \o <<"}">>
      [] it.form = "noname" ->
             <<"\\","i","t","e","m"," ">> \o it.name \o <<"{">> \o it.desc \o <<"}">>

formed_arguments_text(its) ==
    join([i \in 1..Len(its) |-> formed_item_text(its[i])], <<"\n">>)

FormedItemLists == SeqsUpTo(FormedItems, MaxItems)

DontrunLine == <<"\\","d","o","n","t","r","u","n","{">>
CallLine == <<"f","o","o","(","1",")">>

\* \dontrun{ / foo(1) / }
DontrunExample == join(<<DontrunLine, CallLine, <<"}">>>>, <<"\n">>)

ExampleLinePool ==
    {CallLine, <<"f","o","o","(">>, <<"x",")">>, <<>>, DontrunLine, <<"}">>,
     <<"x"," ","<","-"," ","\"","a">>, <<"b","\"">>,
     <<"y"," ","<","-"," ","2">>, <<"#"," ","c">>}

ExampleTexts ==
    {join(ls, <<"\n">>) : ls \in SeqsUpTo(ExampleLinePool, MaxExLines)}

FooName == <<"f","o","o">>
BarName == <<"b","a","r">>
DotBarName == <<".","b","a","r">>

FooOpenLine == <<"f","o","o"," ","<","-"," ","f","u","n","c","t","i","o","n","(","x",",">>
FooCloseLine == <<" "," ","y"," ","="," ","1",")"," ","{">>

\* foo <- function(x, / y = 1) {
MultiLineSource == join(<<FooOpenLine, FooCloseLine>>, <<"\n">>)

SourceLinePool ==
    {FooOpenLine, FooCloseLine,
     <<".","b","a","r"," ","="," ","f","u","n","c","t","i","o","n","(",")">>,
     <<"b","a","r","<","-","f","u","n","c","t","i","o","n","(","a",","," ","b",")">>,
     <<"f","o","o"," ","<","-"," ","f","u","n","c","t","i","o","n","(","x",")",
       " ","g","(","x",")">>,
     <<"#"," ","c"," ","<","-"," ","f","u","n","c","t","i","o","n","(">>,
     <<"x"," ","y"," ","=","f","u","n","c","t","i","o","n","(",")">>}

SourceTexts ==
    {join(ls, <<"\n">>) : ls \in SeqsUpTo(SourceLinePool, MaxSrcLines)}

ExportLists == {<<>>, <<FooName>>, <<BarName, DotBarName>>}

ExamplesOpenLine == <<"\\","e","x","a","m","p","l","e","s","{">>

\* The lines of an examples section: three calls and a line that is no code.
DocLinePool == {<<"a","(",")">>, <<"b","(",")">>, <<"\\","x">>}

\* \examples{ / the lines / }
examples_unit(ls) ==
    join(<<ExamplesOpenLine>> \o ls \o <<(<<"}">>)>>, <<"\n">>)

\* \examples{a()}
OneLineExamplesUnit == ExamplesOpenLine \o <<"a","(",")","}">>

ExampleUnits ==
    {OneLineExamplesUnit}
        \cup {examples_unit(ls) : ls \in {<<>>} \cup SeqsUpTo(DocLinePool, MaxDocLines)}

\* man/foo.Rd, or man/bar.Rd and man/foo.Rd, or no man/ directory.
RdFileSets ==
    {<<>>} \cup {<<(<<FooName, u>>)>> : u \in ExampleUnits}
           \cup {<<(<<BarName, u>>), (<<FooName, u>>)>> : u \in ExampleUnits}

FooDefLine ==
    <<"f","o","o"," ","<","-"," ","f","u","n","c","t","i","o","n","(","x",")",
      " ","g","(","x",")">>
BarDefLine ==
    <<"b","a","r","<","-","f","u","n","c","t","i","o","n","(","a",","," ","b",")">>

DocSources ==
    {join(ls, <<"\n">>) : ls \in SeqsUpTo({FooDefLine, BarDefLine}, MaxSrcLines)}

MarkupFragments ==
    {<<"\\","f","o","o">>, <<"\\","c","o","d","e">>, <<"{">>, <<"}">>,
     <<" ">>, <<"\n">>, <<"a">>, <<"\\">>}

\* \code{\link{f}}
CodeLinkText ==
    <<"\\","c","o","d","e","{","\\","l","i","n","k","{","f","}","}">>

MarkupTexts ==
    {CodeLinkText} \cup {concat(fs) : fs \in SeqsUpTo(MarkupFragments, MaxFrags)}

\* The pieces of the malformed, truncated and unbalanced texts every parser
\* is run on: openers without their closing brace, closing braces and
\* parentheses without their opener, line ends.
CoreFragments ==
    {ItemOpen, DontrunLine, TitleOpenLine,
     <<"f","=","f","u","n","c","t","i","o","n","(">>,
     <<"}">>, <<"{">>, <<"(">>, <<"\"">>, <<"a">>, <<"\n">>}

CoreTexts == {concat(fs) : fs \in SeqsUpTo(CoreFragments, MaxCoreFrags)}

\* The records an extractor hands over: the package record, then function
\* and class records.  A function documents "data" (with no description, or
\* with one of two) or not, and "x" or not.
PackageRecord == [kind |-> "package", common_arguments |-> <<>>]

DataName == <<"d","a","t","a">>

ArgumentMaps ==
    {d \o x : d \in {<<>>} \cup {<<(<<DataName, t>>)>> : t \in {<<>>, <<"A">>, <<"B">>}},
              x \in {<<>>, <<(<<(<<"x">>), (<<"C">>)>>)>>}}

MemberRecords ==
    {[kind |-> "function", arguments |-> m] : m \in ArgumentMaps}
        \cup {[kind |-> "class"]}

RecordLists == {<<PackageRecord>> \o rs : rs \in SeqsUpTo(MemberRecords, MaxRecords)}

\* The example lines the segmenter is followed on, line by line: calls that
\* are complete or span lines, a blank line, wrappers that are closed on a
\* later line or on their own line, stray braces, an unknown command.
DonttestLine == <<"\\","d","o","n","t","t","e","s","t","{","a","}">>

AssignLine == <<"y"," ","<","-"," ","2">>

SegLinePool ==
    {CallLine, <<"f","o","o","(">>, <<"x",")">>, <<>>, DontrunLine, DonttestLine,
     <<"}">>, <<"{">>, <<"\\","x">>, AssignLine}

SegTexts == {join(ls, <<"\n">>) : ls \in SeqsUpTo(SegLinePool, MaxExLines)}

\* The package specifiers given on the command line: nothing or one of the
\* prefixes parse looks for, then up to MaxSpecLen characters.
SpecifierPrefixes ==
    {<<>>, <<".">>, <<"/">>, <<"~">>, LocalPrefix, GitHubPrefix, BiocPrefix}

Specifiers ==
    {p \o r : p \in SpecifierPrefixes,
              r \in {<<>>} \cup SeqsUpTo({"a", "/", "@"}, MaxSpecLen)}

\* The source lines the signature loop is followed on: definitions whose
\* parameter list closes on the line, on a later line, after a nested call,
\* or never, and the lines that may follow them.
NestedOpenLine == <<"f","=","f","u","n","c","t","i","o","n","(","x","=","g","(","1">>

OpenLine == <<"f","=","f","u","n","c","t","i","o","n","(","x">>

OneLineBodyLine ==
    <<"f","=","f","u","n","c","t","i","o","n","(","x",")"," ","g","(","x",")">>

ScanLinePool ==
    {NestedOpenLine, OpenLine, OneLineBodyLine,
     <<")",")">>, <<")">>, <<"h","(","y",")">>, <<"a">>}

ScanTexts == {join(ls, <<"\n">>) : ls \in SeqsUpTo(ScanLinePool, MaxScanLines)}

\* The descriptions handed to truncate_to_sentence: up to MaxOver characters,
\* or as many fewer or more than SentenceLimit; all "a" but for at most one
\* "." , one space, one upper-case letter and one two-byte character, each at
\* one of the first or last places or about the limit.
Lengths == 0..MaxOver \cup (SentenceLimit - MaxOver)..(SentenceLimit + MaxOver)

Places == Lengths \ {SentenceLimit + MaxOver}

sentence_text(n, dot, space, upper, wide) ==
    [i \in 1..n |-> IF i = dot THEN "."
                    ELSE IF i = space THEN " "
                    ELSE IF i = upper THEN "A"
                    ELSE IF i = wide THEN EAcute
                    ELSE "a"]

SentenceTexts ==
    {sentence_text(n, dot, space, upper, wide) :
        n \in Lengths, dot \in Places, space \in Places,
        upper \in {0, MaxOver}, wide \in {0, SentenceLimit}}

-----------------------------------------------------------------------------
(* The drivers: one specification per parser.                               *)

EmptyDoc ==
    [title |-> None, description |-> None, arguments |-> <<>>,
     value |-> None, examples |-> <<>>]

\* Everything but the input and the position of the driver is as the
\* callee's `let mut` declarations leave it.
Fresh ==
    /\ result = <<>>
    /\ line_no = 0
    /\ sections = <<>>
    /\ current_section = <<>>
    /\ section_content = <<>>
    /\ brace_depth = 0
    /\ spans = <<>>
    /\ doc = EmptyDoc
    /\ frame = <<>>

NoScan ==
    exports = <<>> /\ include_internal = FALSE /\ rd_docs = <<>> /\ rd_files = <<>>

sections_vars == <<sections, current_section, section_content, brace_depth>>
scan_vars == <<exports, include_internal, rd_docs, items, rd_files>>

(* parse_rd_content, with extract_rd_sections taken one line at a time. *)

InitRd == input \in RdUnits /\ pc = "rd" /\ items = <<>> /\ Fresh /\ NoScan

RdState ==
    [sections |-> sections, current_section |-> current_section,
     section_content |-> section_content, brace_depth |-> brace_depth]

\* The next line of the unit, trimmed.
NextLine == trim(lines(input)[line_no + 1])

SectionStep(st) ==
    /\ sections' = st.sections
    /\ current_section' = st.current_section
    /\ section_content' = st.section_content
    /\ brace_depth' = st.brace_depth
    /\ line_no' = line_no + 1
    /\ UNCHANGED <<input, pc, result, doc, items, scan_vars, frame>>

OpenSection ==
    /\ pc = "rd" /\ line_no < Len(lines(input))
    /\ brace_depth = 0
    /\ matching_section(NextLine) # 0
    /\ SectionStep(section_line(RdState, lines(input)[line_no + 1]))
    /\ UNCHANGED spans

IgnoreLine ==
    /\ pc = "rd" /\ line_no < Len(lines(input))
    /\ brace_depth = 0
    /\ matching_section(NextLine) = 0
    /\ SectionStep(section_line(RdState, lines(input)[line_no + 1]))
    /\ UNCHANGED spans

AccumulateLine ==
    /\ pc = "rd" /\ line_no < Len(lines(input))
    /\ brace_depth # 0
    /\ brace_depth + count_braces(NextLine) > 0
    /\ SectionStep(section_line(RdState, lines(input)[line_no + 1]))
    /\ UNCHANGED spans

FinalizeSection ==
    /\ pc = "rd" /\ line_no < Len(lines(input))
    /\ brace_depth # 0
    /\ brace_depth + count_braces(NextLine) <= 0
    /\ SectionStep(section_line(RdState, lines(input)[line_no + 1]))
    /\ spans' = Append(spans, <<current_section,
                                <<"{">> \o accumulated(section_content, NextLine)>>)

ParseRdContent ==
    /\ pc = "rd" /\ line_no = Len(lines(input))
    /\ doc' = rd_doc(sections)
    /\ pc' = "done"
    /\ UNCHANGED <<input, result, line_no, sections_vars, spans, items, scan_vars, frame>>

NextRd ==
    OpenSection \/ IgnoreLine \/ AccumulateLine \/ FinalizeSection \/ ParseRdContent

SpecRd == InitRd /\ [][NextRd]_vars

(* parse_arguments_section *)

InitArgs ==
    /\ items \in ItemLists
    /\ input = arguments_text(items)
    /\ pc = "args" /\ Fresh /\ NoScan

ParseArguments ==
    /\ pc = "args"
    /\ result' = parse_arguments_section(input)
    /\ pc' = "done"
    /\ UNCHANGED <<input, line_no, sections_vars, spans, doc, items, scan_vars, frame>>

NextArgs == ParseArguments

SpecArgs == InitArgs /\ [][NextArgs]_vars

(* parse_arguments_section on sections that hold malformed items *)

InitMalformed ==
    /\ items \in FormedItemLists
    /\ input = formed_arguments_text(items)
    /\ pc = "args" /\ Fresh /\ NoScan

SpecMalformed == InitMalformed /\ [][NextArgs]_vars

(* parse_example_blocks *)

InitEx == input \in ExampleTexts /\ pc = "examples" /\ items = <<>> /\ Fresh /\ NoScan

ParseExamples ==
    /\ pc = "examples"
    /\ result' = parse_example_blocks(input)
    /\ pc' = "done"
    /\ UNCHANGED <<input, line_no, sections_vars, spans, doc, items, scan_vars, frame>>

NextEx == ParseExamples

SpecEx == InitEx /\ [][NextEx]_vars

(* extract_functions_from_r *)

InitSig ==
    /\ input \in SourceTexts
    /\ exports \in ExportLists
    /\ include_internal \in BOOLEAN
    /\ rd_files = <<>>
    /\ rd_docs = <<>>
    /\ pc = "scan" /\ items = <<>> /\ Fresh

ScanFunctions ==
    /\ pc = "scan"
    /\ result' = extract_functions_from_r(input, exports, rd_docs, include_internal)
    /\ pc' = "done"
    /\ UNCHANGED <<input, line_no, sections_vars, spans, doc, items, scan_vars, frame>>

NextSig == ScanFunctions

SpecSig == InitSig /\ [][NextSig]_vars

(* extract_functions_from_r with the documentation parse_rd_files collected *)

InitDocs ==
    /\ input \in DocSources
    /\ exports = <<>>
    /\ include_internal \in BOOLEAN
    /\ rd_files \in RdFileSets
    /\ rd_docs = parse_rd_files(rd_files)
    /\ pc = "scan" /\ items = <<>> /\ Fresh

SpecDocs == InitDocs /\ [][NextSig]_vars

(* sanitize *)

InitStrip == input \in MarkupTexts /\ pc = "strip" /\ items = <<>> /\ Fresh /\ NoScan

Sanitize ==
    /\ pc = "strip"
    /\ result' = sanitize(input)
    /\ pc' = "done"
    /\ UNCHANGED <<input, line_no, sections_vars, spans, doc, items, scan_vars, frame>>

NextStrip == Sanitize

SpecStrip == InitStrip /\ [][NextStrip]_vars

(* Every parser taken one iteration of its loops at a time, on any text. *)

CoreLoops ==
    {"rd", "args_loop", "strip_loop", "directives_loop", "scan_lines"}

\* The locals of the loop as it is entered.
core_frame(loop, content) ==
    CASE loop = "args_loop" -> args_init(content)
      [] loop = "strip_loop" -> [chars |-> content, out |-> <<>>]
      [] loop = "directives_loop" -> directives_init(content)
      [] loop = "scan_lines" -> [i |-> 0, functions |-> <<>>, sig |-> <<>>]
      [] OTHER -> <<>>

InitCore ==
    /\ input \in CoreTexts
    /\ pc \in CoreLoops
    /\ frame = core_frame(pc, input)
    /\ result = <<>> /\ line_no = 0 /\ spans = <<>> /\ doc = EmptyDoc
    /\ sections = <<>> /\ current_section = <<>> /\ section_content = <<>>
    /\ brace_depth = 0
    /\ items = <<>> /\ NoScan

core_rest == <<input, line_no, sections_vars, spans, doc, scan_vars>>

\* parse_arguments_section: `while let Some(c) = chars.next()`
ArgsStep ==
    /\ pc = "args_loop" /\ frame.chars # <<>>
    /\ frame' = args_step(frame)
    /\ UNCHANGED <<pc, result, core_rest>>

ArgsReturn ==
    /\ pc = "args_loop" /\ frame.chars = <<>>
    /\ result' = frame.arguments
    /\ pc' = "done"
    /\ UNCHANGED <<frame, core_rest>>

\* strip_rd_markup: `while let Some(c) = chars.next()`
StripStep ==
    /\ pc = "strip_loop" /\ frame.chars # <<>>
    /\ frame' = strip_step(frame)
    /\ UNCHANGED <<pc, result, core_rest>>

StripReturn ==
    /\ pc = "strip_loop" /\ frame.chars = <<>>
    /\ result' = frame.out
    /\ pc' = "done"
    /\ UNCHANGED <<frame, core_rest>>

\* strip_rd_directives: `while let Some(c) = chars.next()`
DirectivesStep ==
    /\ pc = "directives_loop" /\ frame.chars # <<>>
    /\ frame' = directives_step(frame)
    /\ UNCHANGED <<pc, result, core_rest>>

\* strip_rd_directives returns; parse_example_blocks enters its for loop with
\* the lines left to read in ls.
DirectivesReturn ==
    /\ pc = "directives_loop" /\ frame.chars = <<>>
    /\ frame' = [examples |-> <<>>, current_block |-> <<>>,
                 paren_depth |-> 0, in_string |-> FALSE, prev_char |-> " ",
                 ls |-> lines(frame.result)]
    /\ pc' = "example_lines"
    /\ UNCHANGED <<result, core_rest>>

\* parse_example_blocks: `for line in cleaned.lines()`
ExampleLine ==
    /\ pc = "example_lines" /\ frame.ls # <<>>
    /\ frame' = [example_line(frame, Head(frame.ls)) EXCEPT !.ls = Tail(frame.ls)]
    /\ UNCHANGED <<pc, result, core_rest>>

ExamplesReturn ==
    /\ pc = "example_lines" /\ frame.ls = <<>>
    /\ result' = example_blocks_end(frame)
    /\ pc' = "done"
    /\ UNCHANGED <<frame, core_rest>>

\* extract_functions_from_r: a line that is a comment or that no pattern
\* yields a record for.
ScanSkipLine ==
    /\ pc = "scan_lines" /\ frame.i < Len(lines(input))
    /\ first_hit(trim(lines(input)[frame.i + 1]), exports, include_internal) = 0
    /\ frame' = [frame EXCEPT !.i = @ + 1]
    /\ UNCHANGED <<pc, result, core_rest>>

\* A pattern matches: the signature loop is entered.
ScanOpenSignature ==
    /\ pc = "scan_lines" /\ frame.i < Len(lines(input))
    /\ LET line == trim(lines(input)[frame.i + 1])
           k == first_hit(line, exports, include_internal)
       IN /\ k # 0
          /\ frame' = [frame EXCEPT !.sig = signature_init(line, k, frame.i)]
    /\ pc' = "signature_loop"
    /\ UNCHANGED <<result, core_rest>>

\* One pass of `while paren_depth > 0 && j < lines.len()`.
SignatureStep ==
    /\ pc = "signature_loop"
    /\ frame.sig.paren_depth > 0 /\ frame.sig.j < Len(lines(input))
    /\ frame' = [frame EXCEPT !.sig = signature_step(lines(input), @)]
    /\ UNCHANGED <<pc, result, core_rest>>

\* The loop is left: functions.push(func); break.
SignaturePush ==
    /\ pc = "signature_loop"
    /\ ~(frame.sig.paren_depth > 0 /\ frame.sig.j < Len(lines(input)))
    /\ LET line == trim(lines(input)[frame.i + 1])
           name == pattern_name(line, first_hit(line, exports, include_internal))
       IN frame' = [i |-> frame.i + 1,
                    functions |-> Append(frame.functions,
                        function_record(name, is_exported(exports, name),
                            build_signature(name, frame.sig.sig_content), rd_docs)),
                    sig |-> <<>>]
    /\ pc' = "scan_lines"
    /\ UNCHANGED <<result, core_rest>>

ScanReturn ==
    /\ pc = "scan_lines" /\ frame.i = Len(lines(input))
    /\ result' = frame.functions
    /\ pc' = "done"
    /\ UNCHANGED <<frame, core_rest>>

NextCore ==
    \/ NextRd
    \/ ArgsStep \/ ArgsReturn
    \/ StripStep \/ StripReturn
    \/ DirectivesStep \/ DirectivesReturn \/ ExampleLine \/ ExamplesReturn
    \/ ScanSkipLine \/ ScanOpenSignature \/ SignatureStep \/ SignaturePush
    \/ ScanReturn

SpecCore == InitCore /\ [][NextCore]_vars

(* hoist_common_args *)

InitHoist == input \in RecordLists /\ pc = "hoist" /\ items = <<>> /\ Fresh /\ NoScan

HoistCommonArgs ==
    /\ pc = "hoist"
    /\ result' = hoist_common_args(input)
    /\ pc' = "done"
    /\ UNCHANGED <<input, line_no, sections_vars, spans, doc, items, scan_vars, frame>>

NextHoist == HoistCommonArgs

SpecHoist == InitHoist /\ [][NextHoist]_vars

(* parse_example_blocks, one pass of its loops at a time. *)

InitSeg ==
    /\ input \in SegTexts
    /\ pc = "directives_loop"
    /\ frame = core_frame(pc, input)
    /\ result = <<>> /\ line_no = 0 /\ spans = <<>> /\ doc = EmptyDoc
    /\ sections = <<>> /\ current_section = <<>> /\ section_content = <<>>
    /\ brace_depth = 0
    /\ items = <<>> /\ NoScan

NextSeg == DirectivesStep \/ DirectivesReturn \/ ExampleLine \/ ExamplesReturn

SpecSeg == InitSeg /\ [][NextSeg]_vars

(* extract_functions_from_r, one pass of its loops at a time. *)

InitScan ==
    /\ input \in ScanTexts
    /\ pc = "scan_lines"
    /\ frame = core_frame(pc, input)
    /\ result = <<>> /\ line_no = 0 /\ spans = <<>> /\ doc = EmptyDoc
    /\ sections = <<>> /\ current_section = <<>> /\ section_content = <<>>
    /\ brace_depth = 0
    /\ items = <<>> /\ NoScan

NextScan ==
    \/ ScanSkipLine \/ ScanOpenSignature \/ SignatureStep \/ SignaturePush
    \/ ScanReturn

SpecScan == InitScan /\ [][NextScan]_vars

(* truncate_to_sentence *)

InitCompact == input \in SentenceTexts /\ pc = "compact" /\ items = <<>> /\ Fresh /\ NoScan

TruncateToSentence ==
    /\ pc = "compact"
    /\ result' = truncate_to_sentence(input)
    /\ pc' = "done"
    /\ UNCHANGED <<input, line_no, sections_vars, spans, doc, items, scan_vars, frame>>

NextCompact == TruncateToSentence

SpecCompact == InitCompact /\ [][NextCompact]_vars

(* main: the R and the Python command, up to the fetch function called. *)

InitMain ==
    /\ input \in Specifiers
    /\ pc \in {"r", "python"}
    /\ frame = [command |-> pc, source |-> <<>>]
    /\ result = <<>> /\ line_no = 0 /\ spans = <<>> /\ doc = EmptyDoc
    /\ sections = <<>> /\ current_section = <<>> /\ section_content = <<>>
    /\ brace_depth = 0
    /\ items = <<>> /\ NoScan

\* fetch::PackageSource::parse(&package, "r")? (or "python"): an error ends
\* the command.
ParseSource ==
    /\ pc \in {"r", "python"}
    /\ \E path_exists \in BOOLEAN, home_set \in BOOLEAN :
           LET source == parse(input, pc, path_exists, home_set)
           IN /\ frame' = [frame EXCEPT !.source = source]
              /\ IF source.kind = "Err"
                 THEN pc' = "done" /\ result' = source.error
                 ELSE pc' = "match" /\ UNCHANGED result
    /\ UNCHANGED core_rest

MatchRSource ==
    /\ pc = "match" /\ frame.command = "r"
    /\ result' = match_r_source(frame.source)
    /\ pc' = "done"
    /\ UNCHANGED <<frame, core_rest>>

MatchPythonSource ==
    /\ pc = "match" /\ frame.command = "python"
    /\ result' = match_python_source(frame.source)
    /\ pc' = "done"
    /\ UNCHANGED <<frame, core_rest>>

NextMain == ParseSource \/ MatchRSource \/ MatchPythonSource

SpecMain == InitMain /\ [][NextMain]_vars

(* All of them. *)

Init == InitRd \/ InitArgs \/ InitEx \/ InitSig \/ InitStrip

Next == NextRd \/ NextArgs \/ NextEx \/ NextSig \/ NextStrip

Spec == Init /\ [][Next]_vars

-----------------------------------------------------------------------------
(* The claims.                                                              *)

\* The index in the line of the "}" matching the "{" of the section opener
\* \NAME{ that starts it, 0 when the line does not open section NAME or the
\* brace is not closed on the line.
closed_on_line(line, section_name) ==
    LET prefix == section_prefix(section_name)
        after_prefix == SubSeq(line, Len(prefix) + 1, Len(line))
        k == brace_scan(after_prefix, 1, 1)
    IN IF starts_with(line, prefix) /\ k <= Len(after_prefix)
       THEN Len(prefix) + k ELSE 0

SumTwoNumbers == <<"S","u","m"," ","t","w","o"," ","n","u","m","b","e","r","s">>
AddsXAndY == <<"A","d","d","s"," ","x"," ","a","n","d"," ","y",".">>

\* C1: parsing \title{Sum two numbers}\description{Adds \code{x} and \code{y}.}
\* yields the title "Sum two numbers" and the description "Adds x and y.";
\* in general a known section whose opener and matching closing brace lie on
\* the same line (here: the first line of the unit) is stored under its name.
C1_SingleLineSectionStored ==
    pc = "done" =>
        /\ input = TitleDescriptionUnit =>
               /\ doc.title = Some(SumTwoNumbers)
               /\ doc.description = Some(AddsXAndY)
        /\ \A n \in 1..Len(SectionNames) :
               closed_on_line(trim(lines(input)[1]), SectionNames[n]) # 0
                   => BTreeHas(sections, SectionNames[n])

\* C2: for the unit \title{Broken / \description{OK} the extractor stores no
\* title section and stores the description section with content "OK".
C2_UnterminatedTitleTolerated ==
    (pc = "done" /\ input = BrokenTitleUnit) =>
        /\ ~BTreeHas(sections, Title)
        /\ BTreeHas(sections, Description)
        /\ BTreeValue(sections, Description) = <<"O","K">>

\* The plain text of each description of the pool: its inline commands
\* resolved to their content and its whitespace collapsed.
PlainText(desc) ==
    CASE desc = LinkDesc ->
             <<"A"," ","n","u","m","e","r","i","c"," ","v","e","c","t","o","r",".">>
      [] desc = NestedDesc -> <<"S","e","e"," ","f",".">>
      [] desc = SpacedDesc -> <<"a"," ","b">>

DistinctNames(its) ==
    \A i, j \in 1..Len(its) : its[i].name = its[j].name => i = j

\* C3: for an arguments section of N well-formed items (of distinct names)
\* the argument parser returns exactly N entries, each keyed by its NAME and
\* with the description DESC with inline commands stripped and whitespace
\* collapsed.
C3_ArgumentsComplete ==
    (pc = "done" /\ DistinctNames(items)) =>
        /\ Len(result) = Len(items)
        /\ \A i \in 1..Len(items) :
               /\ BTreeHas(result, items[i].name)
               /\ BTreeValue(result, items[i].name) = PlainText(items[i].desc)

\* C4: segmenting the examples text \dontrun{ / foo(1) / } yields exactly one
\* example block, whose code is foo(1).
C4_DontrunUnwrapped ==
    (pc = "done" /\ input = DontrunExample) => result = <<CallLine>>

C4_Witness == pc = "done" /\ input = DontrunExample /\ Len(result) = 1

\* C5: scanning foo <- function(x, / y = 1) { yields one record named foo
\* whose parameter text is exactly "x, y = 1", that is the signature
\* foo(x, y = 1).
C5_MultiLineSignature ==
    (pc = "done" /\ input = MultiLineSource /\ exports = <<>>) =>
        /\ Len(result) = 1
        /\ result[1].name = FooName
        /\ result[1].signature =
               <<"f","o","o","(","x",","," ","y"," ","="," ","1",")">>

\* The parenthesis depth and string state at the end of a block scanned on
\* its own: "(" and ")" count outside string literals, a quote not preceded
\* by a backslash opens or closes a literal.
RECURSIVE block_balance(_, _)
block_balance(chars, st) ==
    IF chars = <<>> THEN st
    ELSE LET c == Head(chars)
             open == IF c = "\"" /\ st.prev # "\\" THEN ~st.open ELSE st.open
             depth == IF open THEN st.depth
                      ELSE IF c = "(" THEN st.depth + 1
                      ELSE IF c = ")" THEN st.depth - 1
                      ELSE st.depth
         IN block_balance(Tail(chars), [depth |-> depth, open |-> open, prev |-> c])

\* C6: every example block the segmenter returns, the last one emitted at end
\* of input included, has net zero parenthesis depth outside string literals
\* and does not end inside a string literal.
C6_BlocksBalanced ==
    pc = "done" =>
        \A i \in 1..Len(result) :
            LET b == block_balance(result[i],
                                   [depth |-> 0, open |-> FALSE, prev |-> " "])
            IN b.depth = 0 /\ ~b.open

\* C7: the captured span of every finalized section, from the opening brace
\* of the section opener through the end of the line that closed it, holds
\* as many "{" as "}".
C7_SpanBalanced ==
    \A i \in 1..Len(spans) :
        count_char(spans[i][2], "{") = count_char(spans[i][2], "}")

\* A recognized command occurs in the text: a backslash followed by a name
\* strip_rd_markup enumerates.
has_recognized_command(t) ==
    \E i \in 1..Len(t) :
        /\ t[i] = "\\"
        /\ command_name(SubSeq(t, i + 1, Len(t))) \in RecognizedCommands

\* C8: for a text with no recognized inline command, sanitizing the
\* sanitized text gives the sanitized text again.
C8_SanitizeIdempotent ==
    (pc = "done" /\ ~has_recognized_command(input)) => sanitize(result) = result

C8_Witness ==
    /\ pc = "done"
    /\ ~has_recognized_command(input)
    /\ contains(input, "\\") /\ contains(input, "{") /\ contains(input, " ")
    /\ result # <<>> /\ result # input

\* Position of the first item named k.
first_item(its, k) ==
    CHOOSE i \in 1..Len(its) : its[i].name = k /\ \A j \in 1..(i - 1) : its[j].name # k

\* Position of the last item named k.
last_item(its, k) ==
    CHOOSE i \in 1..Len(its) : its[i].name = k /\ \A j \in (i + 1)..Len(its) : its[j].name # k

\* C9 as stated: the returned arguments are in the order in which their
\* \item entries are encountered in the section.
C9_EncounterOrder ==
    pc = "done" =>
        \A i, j \in 1..Len(result) :
            i < j => first_item(items, result[i][1]) < first_item(items, result[j][1])

\* C9 (amended): the returned arguments are ordered by name, ascending in
\* byte order, whatever the order of their \item entries.
C9_NameOrder ==
    pc = "done" =>
        \A i, j \in 1..Len(result) : i < j => StrLess(result[i][1], result[j][1])

C9_Witness ==
    /\ pc = "done"
    /\ Len(result) >= 2
    /\ \E i, j \in 1..Len(items) : i < j /\ StrLess(items[j].name, items[i].name)

\* C10: when two or more well-formed items have the same name, the parser
\* returns a single entry for that name, whose description is that of the
\* last such item.
C10_LastWriteWins ==
    pc = "done" =>
        \A k \in {items[i].name : i \in 1..Len(items)} :
            /\ Cardinality({e \in 1..Len(result) : result[e][1] = k}) = 1
            /\ BTreeValue(result, k) = sanitize(items[last_item(items, k)].desc)

C10_Witness ==
    /\ pc = "done"
    /\ \E i, j \in 1..Len(items) :
           /\ i < j
           /\ items[i].name = items[j].name
           /\ sanitize(items[i].desc) # sanitize(items[j].desc)
           /\ BTreeValue(result, items[j].name) = sanitize(items[j].desc)

\* The content a finalization stores: the captured span without its opening
\* brace and its trailing closing braces.
span_content(span) == trim_end_matches_brace(Tail(span))

\* Position in spans of the first finalization of section k.
first_span(k) ==
    CHOOSE i \in 1..Len(spans) : spans[i][1] = k /\ \A j \in 1..(i - 1) : spans[j][1] # k

\* C11: when a unit holds two (or more) finalized top-level sections of the
\* same name, the extractor keeps the content of the first occurrence and
\* ignores the later ones.
C11_FirstOccurrenceWins ==
    pc = "done" =>
        \A i \in 1..Len(spans) :
            /\ BTreeHas(sections, spans[i][1])
            /\ BTreeValue(sections, spans[i][1])
                   = span_content(spans[first_span(spans[i][1])][2])

\* C12: a malformed item (no description group, or no brace around the name)
\* does not affect later items: every well-formed \item{N}{D} that follows a
\* malformed one in the section is still returned.
C12_LaterItemsKept ==
    pc = "done" =>
        \A i, j \in 1..Len(items) :
            (i < j /\ items[i].form # "ok" /\ items[j].form = "ok")
                => BTreeHas(result, items[j].name)

FooCommand == <<"\\","f","o","o">>

\* C13: for a command name the stripper does not enumerate (\foo at the start
\* of the text): followed by an opening brace, the brace group is consumed and
\* its stripped content emitted; otherwise the command name is emitted as
\* literal text (with or without its backslash) and the scan goes on.
C13_UnknownCommand ==
    (pc = "done" /\ starts_with(input, FooCommand)) =>
        LET rest == SubSeq(input, Len(FooCommand) + 1, Len(input))
            g == extract_brace_content_nested(Tail(rest))
        IN IF rest # <<>> /\ Head(rest) = "{"
           THEN strip_rd_markup(input)
                    = strip_rd_markup(g.content) \o strip_rd_markup(g.rest)
           ELSE \/ strip_rd_markup(input) = Tail(FooCommand) \o strip_rd_markup(rest)
                \/ strip_rd_markup(input) = FooCommand \o strip_rd_markup(rest)

CodeOpen == <<"\\","c","o","d","e","{">>

\* C14: for a keep-content command (\code{ at the start of the text) the
\* stripper consumes one brace group and emits its content recursively
\* stripped, so no command marker or brace of the group is in the output.
C14_KeepContentStripped ==
    (pc = "done" /\ starts_with(input, CodeOpen)) =>
        LET g == extract_brace_content_nested(
                     SubSeq(input, Len(CodeOpen) + 1, Len(input)))
        IN strip_rd_markup(input)
               = strip_rd_markup(g.content) \o strip_rd_markup(g.rest)

without_braces(s) == SelectSeq(s, LAMBDA c : c \notin {"{", "}"})

\* C15: a brace met outside the brace group of a recognized command is not
\* in the output: a text with no recognized command strips to a text with no
\* brace, and a text with no command at all strips to itself without its
\* braces, every other character kept in order.
C15_StrayBracesDropped ==
    pc = "done" =>
        /\ ~has_recognized_command(input) =>
               without_braces(strip_rd_markup(input)) = strip_rd_markup(input)
        /\ ~contains(input, "\\") => strip_rd_markup(input) = without_braces(input)

C15_Witness ==
    /\ pc = "done"
    /\ ~contains(input, "\\")
    /\ contains(input, "{") /\ contains(input, "}") /\ contains(input, "a")
    /\ result = <<"a">>

\* The lines of the examples section of a unit \examples{...}: the text
\* between the opener and the closing brace, split into lines.  In the units
\* checked every non-empty line is a block, valid unless it begins a command.
unit_lines(text) ==
    lines(SubSeq(text, Len(ExamplesOpenLine) + 1, Len(text) - 1))

valid_blocks(text) ==
    SelectSeq(unit_lines(text), LAMBDA l : l # <<>> /\ Head(l) # "\\")

first_three(v) == [i \in 1..(IF Len(v) < 3 THEN Len(v) ELSE 3) |-> v[i]]

\* C16: every function record carries at most three examples, and they are
\* the first three valid example blocks of the examples section of the unit
\* of its name (all of them when there are fewer), in their original order.
C16_FirstThreeExamples ==
    pc = "done" =>
        \A r \in 1..Len(result) :
            /\ Len(result[r].examples) <= 3
            /\ \A f \in 1..Len(rd_files) :
                   rd_files[f][1] = result[r].name
                       => result[r].examples = first_three(valid_blocks(rd_files[f][2]))

\* C17: for every record the scanner produces, exported is true iff the
\* name is a member of the export list or the export list is empty.
C17_ExportedFlag ==
    pc = "done" =>
        \A r \in 1..Len(result) :
            result[r].exported
                <=> ((\E e \in 1..Len(exports) : exports[e] = result[r].name)
                        \/ exports = <<>>)

C17_Witness ==
    /\ pc = "done"
    /\ exports # <<>>
    /\ \E r \in 1..Len(result) : ~result[r].exported
    /\ \E r \in 1..Len(result) : result[r].exported

\* The exclusion rule as the claim states it.
excluded(name) ==
    /\ ~include_internal
    /\ \/ starts_with(name, <<".">>)
       \/ exports # <<>> /\ ~\E e \in 1..Len(exports) : exports[e] = name

\* The patterns that match a definition on the line: the pattern occurs and
\* the text before it is one word.
matched(line) ==
    {k \in 1..Len(Patterns) :
        /\ ~starts_with(line, <<"#">>)
        /\ find(line, Patterns[k]) # -1
        /\ pattern_name(line, k) # <<>>
        /\ ~contains(pattern_name(line, k), " ")}

\* The name of the record expected for the line, if any: that of the first
\* matched definition that is not excluded.
expected_name(line) ==
    LET ks == {k \in matched(line) : ~excluded(pattern_name(line, k))}
    IN IF ks = {} THEN <<>>
       ELSE <<pattern_name(line, CHOOSE k \in ks : \A h \in ks : k <= h)>>

RECURSIVE expected_names(_)
expected_names(ls) ==
    IF ls = <<>> THEN <<>>
    ELSE expected_name(trim(Head(ls))) \o expected_names(Tail(ls))

\* C18: a matched function definition is left out of the scanner's results
\* iff include_internal is false and (its name begins with "." or its name is
\* absent from a non-empty export list); the others are returned, in order.
C18_InternalExcluded ==
    pc = "done" =>
        [r \in 1..Len(result) |-> result[r].name] = expected_names(lines(input))

C18_Witness ==
    /\ pc = "done"
    /\ ~include_internal
    /\ Len(result) = 1
    /\ \E i \in 1..Len(lines(input)) : \E k \in matched(trim(lines(input)[i])) :
           starts_with(pattern_name(trim(lines(input)[i]), k), <<".">>)

\* What a parser has left to do, as a number: the characters or lines its
\* loop has not consumed yet (for the scanner, the lines left to scan and,
\* within the signature loop, the lines left to append), and its return.
Rank ==
    LET n == Len(lines(input))
    IN CASE pc = "done" -> 0
         [] pc = "rd" -> 2 + n - line_no
         [] pc \in {"args_loop", "strip_loop"} -> 1 + Len(frame.chars)
         [] pc = "directives_loop" -> 3 + Len(input) + Len(frame.chars)
         [] pc = "example_lines" -> 1 + Len(frame.ls)
         [] pc = "scan_lines" -> 1 + (n - frame.i) * (n + 3)
         [] pc = "signature_loop" ->
                2 + (n - frame.i - 1) * (n + 3)
                  + (IF frame.sig.paren_depth > 0 THEN n - frame.sig.j + 1 ELSE 0)

\* The parser has returned, or it is in a loop with its index within the
\* text, so that the loop either iterates or is left.
Running ==
    \/ pc = "done"
    \/ pc = "rd" /\ line_no <= Len(lines(input))
    \/ pc \in {"args_loop", "strip_loop", "directives_loop"}
           /\ Len(frame.chars) <= Len(input)
    \/ pc = "example_lines" /\ Len(frame.ls) <= Len(input)
    \/ pc = "scan_lines" /\ frame.i <= Len(lines(input))
    \/ pc = "signature_loop" /\ frame.i < Len(lines(input))
           /\ frame.sig.j <= Len(lines(input))

\* C19: on every input text, malformed, truncated or unbalanced ones
\* included, each core parser (section extractor, argument parser, inline
\* stripper, wrapper removal and example segmenter, signature scanner)
\* terminates and returns a result: until it has returned it is in one of
\* its loops with something left to consume, and every step it takes
\* leaves strictly less to do; there is no other outcome.
C19_ParsersTerminate ==
    /\ [](Running /\ Rank \in Nat)
    /\ [][Rank' < Rank]_vars

C19_Witness ==
    /\ pc = "done"
    /\ count_braces(input) > 0
    /\ contains(input, "(")
    /\ frame # <<>> /\ "sig" \in DOMAIN frame

\* The function records of the input that document argument n.
documenting(n) ==
    {r \in 1..Len(input) :
        /\ input[r].kind = "function"
        /\ \E a \in 1..Len(input[r].arguments) : input[r].arguments[a][1] = n}

description_in(r, n) ==
    input[r].arguments[CHOOSE a \in 1..Len(input[r].arguments) :
                           input[r].arguments[a][1] = n][2]

\* The argument names in at least three function records, one of which
\* describes them.
Hoisted ==
    {n \in {DataName, <<"x">>} :
        /\ Cardinality(documenting(n)) >= 3
        /\ \E r \in documenting(n) : description_in(r, n) # <<>>}

first_described(n) ==
    CHOOSE r \in documenting(n) :
        /\ description_in(r, n) # <<>>
        /\ \A q \in documenting(n) : q < r => description_in(q, n) = <<>>

\* C20: hoist_common_args hoists exactly the argument names that are in at
\* least 3 function records and have a non-empty description: each is in the
\* first package record's common_arguments with its first non-empty
\* description in record order, and in every function record that has it its
\* description is "(see common_arguments)"; the other descriptions and the
\* number and order of the records are unchanged.
C20_HoistCommonArgs ==
    pc = "done" =>
        /\ Len(result) = Len(input)
        /\ \A r \in 1..Len(input) : result[r].kind = input[r].kind
        /\ {result[1].common_arguments[a][1] :
                a \in 1..Len(result[1].common_arguments)} = Hoisted
        /\ \A a \in 1..Len(result[1].common_arguments) :
               LET n == result[1].common_arguments[a][1]
               IN result[1].common_arguments[a][2] = description_in(first_described(n), n)
        /\ \A r \in 2..Len(input) :
               /\ input[r].kind = "class" => result[r] = input[r]
               /\ input[r].kind = "function" =>
                      /\ Len(result[r].arguments) = Len(input[r].arguments)
                      /\ \A a \in 1..Len(input[r].arguments) :
                             /\ result[r].arguments[a][1] = input[r].arguments[a][1]
                             /\ result[r].arguments[a][2] =
                                    IF input[r].arguments[a][1] \in Hoisted
                                    THEN SeeCommonArguments
                                    ELSE input[r].arguments[a][2]

C20_Witness ==
    /\ pc = "done"
    /\ Hoisted = {DataName}
    /\ Cardinality(documenting(<<"x">>)) >= 1
    /\ description_in(first_described(DataName), DataName) = <<"B">>
    /\ \E r \in documenting(DataName) : description_in(r, DataName) = <<"A">>
    /\ \E r \in documenting(DataName) : description_in(r, DataName) = <<>>

-----------------------------------------------------------------------------
(* C21 *)

\* A sentence boundary: a '.', '!' or '?' that is followed by whitespace, by
\* an upper-case letter or by the end of the text.
sentence_boundary(s) ==
    \E i \in 1..Len(s) :
        /\ s[i] \in {".", "!", "?"}
        /\ \/ i = Len(s)
           \/ s[i + 1] \in {" ", "\n", "\t"}
           \/ is_uppercase(s[i + 1])

\* C21: for a text with no sentence boundary, truncate_to_sentence returns
\* the text unchanged when it is at most 100 bytes long, and when it is
\* longer the result ends with "..." and is strictly shorter than the text.
C21_TruncateShortens ==
    (pc = "done" /\ ~sentence_boundary(input)) =>
        IF byte_len(input) <= 100
        THEN result = input
        ELSE /\ result # Panicked
             /\ ends_with(result, <<".", ".", ".">>)
             /\ byte_len(result) < byte_len(input)

-----------------------------------------------------------------------------
(* C22 *)

\* The text after `function(` on line i (0-based) of ls, a line that the
\* scanner opened a signature for.
after_open(ls, i) ==
    LET line == trim(ls[i + 1])
    IN signature_init(line, first_hit(line, <<>>, FALSE), i).sig_content

\* That text and the trimmed lines after it up to line m.
RECURSIVE up_to_line(_, _, _)
up_to_line(ls, i, m) ==
    IF m <= i THEN after_open(ls, i)
    ELSE IF m >= Len(ls) THEN up_to_line(ls, i, Len(ls) - 1)
    ELSE up_to_line(ls, i, m - 1) \o trim(ls[m + 1])

\* The parenthesis count, started at 1, with every character of the text
\* counted once.
counted_once(text) ==
    1 + Cardinality({p \in 1..Len(text) : text[p] = "("})
      - Cardinality({p \in 1..Len(text) : text[p] = ")"})

\* The first line after which the count has returned to zero; the number of
\* lines when it never does.
closing_line(ls, i) ==
    LET closed == {m \in i..(Len(ls) - 1) : counted_once(up_to_line(ls, i, m)) <= 0}
    IN IF closed = {} THEN Len(ls)
       ELSE CHOOSE m \in closed : \A q \in closed : m <= q

\* C22: in the signature loop the parenthesis count is the count, started at
\* 1, of every character taken so far counted once, and no line after the
\* one that brings the count back to zero is appended.
C22_RunningCount ==
    pc = "signature_loop" =>
        LET ls == lines(input)
            sig == frame.sig
        IN /\ sig.j <= closing_line(ls, frame.i)
           /\ sig.paren_depth \in
                  {1, counted_once(up_to_line(ls, frame.i, sig.j - 1)),
                      counted_once(up_to_line(ls, frame.i, sig.j))}

-----------------------------------------------------------------------------
(* C23 *)

\* A block the segmenter does not return: empty or whitespace only, a single
\* brace, or text that begins with a backslash.
dropped_block(block) ==
    \/ \A p \in 1..Len(block) : block[p] \in {" ", "\t", "\n"}
    \/ block \in {<<"{">>, <<"}">>}
    \/ block[1] = "\\"

\* The current block was closed: it is cleared, and returned unless it is one
\* of the blocks that are dropped.
block_closed(block) ==
    /\ frame'.current_block = <<>>
    /\ IF dropped_block(trim(block))
       THEN frame'.examples = frame.examples
       ELSE frame'.examples = Append(frame.examples, trim(block))

\* The step reads a blank line.
reads_blank ==
    pc = "example_lines" /\ frame.ls # <<>> /\ trim(Head(frame.ls)) = <<>>

\* The step reads a line that joins a block that is open.
reads_joining ==
    /\ pc = "example_lines" /\ frame.ls # <<>> /\ trim(Head(frame.ls)) # <<>>
    /\ frame.current_block # <<>>

\* C23: a blank line closes the current block when the parenthesis depth is
\* zero and is swallowed (the block and the blocks returned so far are left
\* as they are) when the depth is above zero; the line read next is joined to
\* the block that was open, so the lines before and after a swallowed blank
\* line are in one block.
C23_BlankLine ==
    [][/\ reads_blank =>
            IF frame.paren_depth > 0
            THEN /\ frame'.current_block = frame.current_block
                 /\ frame'.examples = frame.examples
                 /\ frame'.paren_depth = frame.paren_depth
            ELSE frame.current_block # <<>> => block_closed(frame.current_block)
       /\ reads_joining =>
            LET joined == frame.current_block \o <<"\n">> \o trim(Head(frame.ls))
            IN frame'.current_block = joined \/ block_closed(joined)]_vars

\* foo( / (blank) / x) has been read: the blank line was swallowed at depth 1
\* and the one block foo( / x) is returned.
C23_Witness ==
    /\ pc = "done"
    /\ input = <<"f","o","o","(","\n","\n","x",")">>
    /\ result = <<(<<"f","o","o","(","\n","x",")">>)>>

-----------------------------------------------------------------------------
(* C24 *)

\* The blocks the segmenter has returned, or is going to return, so far.
returned_blocks ==
    IF pc = "example_lines" THEN frame.examples
    ELSE IF pc = "done" THEN result
    ELSE <<>>

is_prefix(s, t) == Len(s) <= Len(t) /\ SubSeq(t, 1, Len(s)) = s

\* C24: no block returned by the example segmenter is empty or whitespace
\* only, a single "{" or "}", or begins with a backslash; such blocks are
\* dropped and the other blocks stay in the order they were closed in (a
\* step only ever adds a block at the end).
C24_NoInvalidBlock ==
    /\ [](\A b \in 1..Len(returned_blocks) : ~dropped_block(returned_blocks[b]))
    /\ [][is_prefix(returned_blocks, returned_blocks')
          /\ Len(returned_blocks') <= Len(returned_blocks) + 1]_vars

\* \x / y <- 2 has been read: the block \x was dropped, y <- 2 is returned.
C24_Witness ==
    /\ pc = "done"
    /\ input = <<"\\","x","\n","y"," ","<","-"," ","2">>
    /\ result = <<(<<"y"," ","<","-"," ","2">>)>>

-----------------------------------------------------------------------------
(* C25 *)

WrapperOpeners ==
    {<<"\\","d","o","n","t","r","u","n","{">>,
     <<"\\","d","o","n","t","t","e","s","t","{">>,
     <<"\\","d","o","n","t","s","h","o","w","{">>,
     <<"\\","d","o","n","t","e","v","a","l","{">>}

\* The wrapper opener the text starts with, or <<>>.
opener_at(chars) ==
    IF \E w \in WrapperOpeners : starts_with(chars, w)
    THEN CHOOSE w \in WrapperOpeners : starts_with(chars, w)
    ELSE <<>>

\* The text without its wrappers, by matching every "}" with the brace it
\* closes: open holds, innermost first, "w" for a wrapper's brace and "b" for
\* any other brace.  The outcome is the text kept and the braces left open.
RECURSIVE unwrap(_, _, _)
unwrap(chars, open, kept) ==
    IF chars = <<>> THEN [kept |-> kept, open |-> open]
    ELSE IF opener_at(chars) # <<>>
    THEN unwrap(SubSeq(chars, Len(opener_at(chars)) + 1, Len(chars)),
                <<"w">> \o open, kept)
    ELSE IF Head(chars) = "{"
    THEN unwrap(Tail(chars), <<"b">> \o open, Append(kept, "{"))
    ELSE IF Head(chars) = "}" /\ open # <<>>
    THEN unwrap(Tail(chars), Tail(open),
                IF Head(open) = "w" THEN kept ELSE Append(kept, "}"))
    ELSE unwrap(Tail(chars), open, Append(kept, Head(chars)))

\* Every wrapper of the text is followed by a brace group that is closed.
wrappers_closed(text) ==
    LET u == unwrap(text, <<>>, <<>>)
    IN \A p \in 1..Len(u.open) : u.open[p] # "w"

\* C25: when every wrapper (\dontrun, \donttest, \dontshow, \donteval
\* followed by a brace group) of the text is closed, the wrapper-removal pass
\* returns the text less the name, the opening brace and the matching closing
\* brace of every wrapper, all other characters kept in order, also for a
\* wrapper inside a wrapper and for balanced braces inside a wrapper.
C25_WrappersRemoved ==
    (pc = "directives_loop" /\ frame.chars = <<>> /\ wrappers_closed(input)) =>
        frame.result = unwrap(input, <<>>, <<>>).kept

-----------------------------------------------------------------------------
(* C26 *)

\* C26: in the section extractor the tracked brace depth is never negative
\* after a line has been processed, the line that opens a section included;
\* so no line is appended to a section that an earlier line closed.
C26_DepthNeverNegative ==
    brace_depth >= 0

-----------------------------------------------------------------------------
(* C27 *)

\* The text with one trailing "}" removed.
one_brace_removed(text) ==
    IF text # <<>> /\ text[Len(text)] = "}"
    THEN SubSeq(text, 1, Len(text) - 1) ELSE text

\* Position in spans of the last finalization of section k.
last_span(k) ==
    CHOOSE i \in 1..Len(spans) :
        spans[i][1] = k /\ \A j \in (i + 1)..Len(spans) : spans[j][1] # k

\* C27: the content stored for a finalized section is the text accumulated
\* for it (the captured span less its opening brace) with exactly one
\* trailing "}" removed; a closing brace of nested content just before it is
\* kept.
C27_OneBraceTrimmed ==
    \A i \in 1..Len(spans) :
        BTreeValue(sections, spans[i][1])
            = one_brace_removed(Tail(spans[last_span(spans[i][1])][2]))

-----------------------------------------------------------------------------
(* C28 *)

\* The lines (0-based) of ls that define a function, in ascending order.
defining_lines(ls) ==
    LET defs == {i \in 0..(Len(ls) - 1) : first_hit(trim(ls[i + 1]), <<>>, FALSE) # 0}
    IN [n \in 1..Cardinality(defs) |->
           CHOOSE i \in defs : Cardinality({d \in defs : d < i}) = n - 1]

\* The places of text where the parenthesis opened by `function(` is closed:
\* the count, started at 1, is back to zero.
matching_parens(text) ==
    {p \in 1..Len(text) : text[p] = ")" /\ counted_once(SubSeq(text, 1, p)) = 0}

\* The text between the `(` of `function(` and its matching parenthesis.
parameter_text(text) ==
    SubSeq(text, 1, (CHOOSE p \in matching_parens(text) :
                        \A q \in matching_parens(text) : p <= q) - 1)

\* C28: the signature of a function record is name(P), P being the text
\* (less surrounding whitespace) between the `(` of `function(` and its
\* matching closing parenthesis; nothing located after that parenthesis is
\* in the signature.
C28_SignatureIsParameterList ==
    pc = "done" =>
        LET ls == lines(input)
            defs == defining_lines(ls)
        IN /\ Len(result) = Len(defs)
           /\ \A n \in 1..Len(result) :
                  LET text == up_to_line(ls, defs[n], Len(ls) - 1)
                  IN matching_parens(text) # {} =>
                         result[n].signature =
                             result[n].name \o <<"(">>
                                 \o trim(parameter_text(text)) \o <<")">>

-----------------------------------------------------------------------------
(* C29 *)

\* C29: when include_internal is false, every function record the scanner
\* returns has exported = true and a name that does not begin with ".", also
\* when a name that begins with "." is in the export list.
C29_OnlyPublicRecords ==
    (pc = "done" /\ ~include_internal) =>
        \A r \in 1..Len(result) :
            /\ result[r].exported
            /\ ~starts_with(result[r].name, <<".">>)

\* .bar is in the export list and is defined in the source, next to a
\* definition that is returned.
C29_Witness ==
    /\ pc = "done"
    /\ ~include_internal
    /\ \E e \in 1..Len(exports) : exports[e] = <<".","b","a","r">>
    /\ \E i \in 1..Len(lines(input)) :
           starts_with(lines(input)[i], <<".","b","a","r"," ","=">>)
    /\ result # <<>>

-----------------------------------------------------------------------------
(* C30 *)

\* C30: every package source that parse returns successfully for language
\* "r" is dispatched by the R command to a fetch function: the command never
\* ends with "Invalid source for R package" for a specifier parse accepted.
C30_AcceptedSourceFetched ==
    (pc = "done" /\ frame.command = "r" /\ frame.source.kind # "Err") =>
        /\ result # "Invalid source for R package"
        /\ result \in {"fetch_cran_package", "fetch_bioconductor_package",
                       "fetch_github_r_package", "fetch_local_r_package"}

====
